---- MODULE Spec2Model ----
(***************************************************************************)
(* State-machine model of the virtual try-on generation pipeline:          *)
(* TryOnGenerator.generateTryOn and the GeminiIntegration calls it makes   *)
(* (validateImageSafety, generateTryOn, generateTryOnImage,                *)
(* analyzeTryOnResult, addSafetyWatermark, updateUsageStats).              *)
(*                                                                         *)
(* Numbers that are fractions in the source (confidence, qualityScore) are *)
(* kept in thousandths: 0.9 is 900, 1 is 1000.                             *)
(***************************************************************************)
EXTENDS Integers, Sequences, FiniteSets, TLC

\* ---------------------------------------------------------------- bounds
\* Largest number of recommendation strings an Analyze reply carries.
MaxRecs == 3
\* Largest number of parts in a Generate response.
MaxParts == 1

\* ------------------------------------------------------------- constants
\* JavaScript `undefined` for numeric fields (no number of the model is this low).
undefined == 0 - 999999

\* processingMethod tags written by the source.
GEMINI_TAG == "gemini-2.5-flash-image"
MOCK_TAG == "enhanced-mock-generator"
NO_TAG == "none"

\* Confidence defaults (thousandths).
PARSE_DEFAULT_CONFIDENCE == 800
GENERATE_DEFAULT_CONFIDENCE == 900
TRYON_DEFAULT_CONFIDENCE == 800
MOCK_CONFIDENCE == 850
ANALYSIS_FAILED_CONFIDENCE == 800

\* Quality score terms (thousandths).
BASE_SCORE == 500
METHOD_BONUS == 200
REC_STEP == 50
REC_CAP == 150
ONE == 1000
CONFIDENCE_WEIGHT == 300

\* The processingMethod that calculateQualityScore rewards.
SCORED_TAG == "gemini-ai"

\* ----------------------------------------------------------------- state
VARIABLES
  geminiIntegration, \* TRUE iff TryOnGenerator.geminiIntegration is non-null
  apiKey,            \* TRUE iff GeminiIntegration.apiKey is set
  hasDocument,       \* TRUE iff the context has a DOM (document, Image, canvas)
  db,                \* TRUE iff StorageManager.db is initialised
  userPhotos,        \* ids of the photos held by the store
  request,           \* arguments of generateTryOn
  pc,                \* position of the run inside generateTryOn/performAITryOn
  stages,            \* stages entered so far, in order
  finished,          \* stages that have finished
  calls,             \* network requests issued, per stage
  userCheck,         \* value returned by validateImageSafety(userPhoto)
  clothCheck,        \* value returned by validateImageSafety(clothingItem)
  genReply,          \* what the Generate request came back with
  anaReply,          \* what the Analyze request came back with
  imageResult,       \* value returned by generateTryOnImage
  tryOnResult,       \* the TryOnResult of the run
  returned,          \* what generateTryOn returned: "none", "success", "error"
  store,             \* records written by StorageManager.saveTryOnResult
  usage,             \* geminiUsageStats in chrome.storage.local
  updaters,          \* the updateUsageStats calls in progress, per run
  usageLog,          \* updateUsageStats calls completed and storage failures
  now,               \* the date `new Date()` returns
  message,           \* the runtime message the background listener received
  profile,           \* userProfile (and userPhotos) in chrome.storage.local
  recentTryOns,      \* recentTryOns in chrome.storage.local
  hpc,               \* position of the message handler
  detection,         \* value returned by processImageWithAI
  fetches,           \* requests the handler itself sent, per kind
  refineReply,       \* what the Refine request came back with
  responses,         \* the objects passed to sendResponse, in order
  popupTryOns,       \* VirtualTryOnPopup.recentTryOns, the popup's copy of the history
  added,             \* addRecentTryOn calls made by the popup
  procArgs,          \* the arguments of the ImageProcessor call being made
  procResult,        \* the value the ImageProcessor call returned
  wire,              \* the requests makeApiCall has sent, in order
  heldTryOns,        \* the history handleImageRefinement read, its local recentTryOns
  contentScript      \* the content script of a page: VirtualTryOnContent and its listeners

vars == <<geminiIntegration, apiKey, hasDocument, db, userPhotos, request, pc,
          stages, finished, calls, userCheck, clothCheck, genReply, anaReply,
          imageResult, tryOnResult, returned, store, usage, updaters, usageLog,
          now, message, profile, recentTryOns, hpc, detection, fetches, refineReply,
          responses, popupTryOns, added, procArgs, procResult, wire,
          heldTryOns, contentScript>>

\* The state of the background message handler.
handlerState == <<message, profile, recentTryOns, hpc, detection, fetches,
                  refineReply, responses, heldTryOns>>

\* The state of the popup.
popupState == <<popupTryOns, added>>

\* The state of the image processor.
processorState == <<procArgs, procResult>>

\* The state neither a generateTryOn run, nor a usage update, nor the
\* background message handler touches.
elsewhere == <<popupState, processorState, contentScript>>

\* The state outside one generateTryOn run: the usage updaters, the
\* background message handler and the rest.
beyondRun == <<updaters, usageLog, now, handlerState, elsewhere>>

\* ------------------------------------------------------------ stage names
VALIDATE == "Validate"
SAFETY_SUBJECT == "SafetySubject"
SAFETY_GARMENT == "SafetyGarment"
PREPARE_SUBJECT == "PrepareSubject"
PREPARE_GARMENT == "PrepareGarment"
GENERATE == "Generate"
ANALYZE == "Analyze"
POSTPROCESS == "PostProcess"
PERSIST == "Persist"

NetStages == {SAFETY_SUBJECT, SAFETY_GARMENT, GENERATE, ANALYZE}

\* JavaScript `x || d` on a number: undefined and 0 are falsy.
OrDefault(x, d) == IF x = undefined \/ x = 0 THEN d ELSE x

Min(a, b) == IF a < b THEN a ELSE b
Max(a, b) == IF a > b THEN a ELSE b

\* --------------------------------------------- replies of the external service
\* A Safety reply, as validateImageSafety sees it: the request failed, the text
\* holds no JSON object, or it holds one with optional fields safe and
\* recommendation ("absent" when the field is missing).
SafetyReplies ==
  {[kind |-> "error", safe |-> "absent", recommendation |-> "absent"],
   [kind |-> "nojson", safe |-> "absent", recommendation |-> "absent"]}
  \cup [kind : {"json"}, safe : {"true", "false", "absent"},
        recommendation : {"proceed", "review", "reject", "absent"}]

\* Parts of a Generate response: an inline image part, a text part (or any
\* other part that holds no image), a text part with a data-URI image inside,
\* and an entry that cannot be read as a part (null).
PartKinds == {"image", "text", "text-data-uri", "unreadable"}

PartLists == UNION {[1..n -> PartKinds] : n \in 0..MaxParts}

\* A Generate reply: the request failed, or a response with or without
\* candidates whose first candidate holds parts and possibly an alternative
\* image field.
GenerateReplies ==
  {[kind |-> "error", candidates |-> FALSE, parts |-> <<>>, candidateImage |-> FALSE],
   [kind |-> "response", candidates |-> FALSE, parts |-> <<>>, candidateImage |-> FALSE]}
  \cup [kind : {"response"}, candidates : {TRUE}, parts : PartLists,
        candidateImage : BOOLEAN]

NoGenerateReply ==
  [kind |-> "none", candidates |-> FALSE, parts |-> <<>>, candidateImage |-> FALSE]

\* confidence_score values a JSON analysis can carry (thousandths).
JsonConfidences == {undefined, 0, 0 - 500, 900, 1500}

\* Numbers a `confidence: <number>` pattern in free text can carry (thousandths):
\* the pattern matches unsigned decimals only.
TextConfidences == {undefined, 0, 95000}

\* An Analyze reply: the request failed, the response has no candidates (or no
\* text to read), its text holds a JSON object, or its text is free text.
AnalyzeReplies ==
  {[kind |-> "error", confidence |-> undefined, recommendations |-> 0],
   [kind |-> "nocandidates", confidence |-> undefined, recommendations |-> 0]}
  \cup [kind : {"json"}, confidence : JsonConfidences, recommendations : 0..MaxRecs]
  \cup [kind : {"text"}, confidence : TextConfidences, recommendations : 0..MaxRecs]

NoAnalyzeReply == [kind |-> "none", confidence |-> undefined, recommendations |-> 0]

\* ------------------------------------------------------- GeminiIntegration
\* validateImageSafety: the {safe, recommendation} it returns for a reply;
\* without an API key it returns safe without calling the service.
NoCheck == [safe |-> TRUE, recommendation |-> "none"]

validateImageSafety(hasKey, reply) ==
  IF ~hasKey THEN [safe |-> TRUE, recommendation |-> "undefined"]
  ELSE IF reply.kind = "json"
    THEN [safe |-> reply.safe # "false",
          recommendation |-> IF reply.recommendation = "absent" THEN "proceed"
                             ELSE reply.recommendation]
    ELSE [safe |-> TRUE, recommendation |-> "undefined"]

\* createFallbackTryOnImage draws the placeholder on a canvas of the document:
\* "throws" where there is no document.
createFallbackTryOnImage(dom) == IF dom THEN "placeholder" ELSE "throws"

\* First loop of extractGeneratedImage over parts i..: the first inline image
\* part wins; an unreadable entry before it throws.
RECURSIVE FindImagePart(_, _)
FindImagePart(parts, i) ==
  IF i > Len(parts) THEN "notfound"
  ELSE IF parts[i] = "unreadable" THEN "throws"
  ELSE IF parts[i] = "image" THEN "inline_data"
  ELSE FindImagePart(parts, i + 1)

\* Last loop of extractGeneratedImage: a data-URI image inside a text part.
HasTextDataUri(parts) == \E i \in 1..Len(parts) : parts[i] = "text-data-uri"

\* Faulty variant of extractGeneratedImage: answers null instead of drawing the
\* placeholder when the response holds no image.
extractGeneratedImageNull(response, dom) ==
  IF ~response.candidates THEN "none"
  ELSE LET found == FindImagePart(response.parts, 1)
       IN IF found = "throws" THEN "none"
          ELSE IF found # "notfound" THEN found
          ELSE IF response.candidateImage THEN "candidate.image"
          ELSE IF HasTextDataUri(response.parts) THEN "text-data-uri"
          ELSE "none"

\* extractGeneratedImage: the image it returns for a response.
extractGeneratedImage(response, dom) ==
  IF ~response.candidates THEN createFallbackTryOnImage(dom)
  ELSE LET found == FindImagePart(response.parts, 1)
       IN IF found = "throws" THEN createFallbackTryOnImage(dom)
          ELSE IF found # "notfound" THEN found
          ELSE IF response.candidateImage THEN "candidate.image"
          ELSE IF HasTextDataUri(response.parts) THEN "text-data-uri"
          ELSE createFallbackTryOnImage(dom)

\* generateTryOnImage: {success, generatedImage} for a Generate reply. A failed
\* request, an exception of the extraction and an empty extraction ("none") all
\* end in {success: false}.
generateTryOnImage(reply, dom) ==
  IF reply.kind = "error" THEN [success |-> FALSE, generatedImage |-> "none"]
  ELSE LET imageData == extractGeneratedImage(reply, dom)
       IN IF imageData = "throws" \/ imageData = "none"
            THEN [success |-> FALSE, generatedImage |-> "none"]
            ELSE [success |-> TRUE, generatedImage |-> imageData]

\* extractConfidence: the number after `confidence:` or the default.
extractConfidence(reply) ==
  IF reply.confidence # undefined THEN reply.confidence ELSE PARSE_DEFAULT_CONFIDENCE

\* parseAdvancedTryOnResponse: {confidence, recommendations} of the parsed analysis.
parseAdvancedTryOnResponse(reply) ==
  IF reply.kind = "nocandidates"
    THEN [confidence |-> undefined, recommendations |-> 0]
  ELSE IF reply.kind = "json"
    THEN [confidence |-> OrDefault(reply.confidence, PARSE_DEFAULT_CONFIDENCE),
          recommendations |-> reply.recommendations]
  ELSE [confidence |-> extractConfidence(reply),
        recommendations |-> reply.recommendations]

\* Faulty variant of analyzeTryOnResult: lets the failure of the request escape.
analyzeTryOnResultRethrows(reply) ==
  IF reply.kind = "error"
    THEN [threw |-> TRUE, confidence |-> undefined, recommendations |-> 0]
    ELSE [threw |-> FALSE] @@ parseAdvancedTryOnResponse(reply)

\* analyzeTryOnResult: a failed request is answered with basic feedback.
analyzeTryOnResult(reply) ==
  IF reply.kind = "error"
    THEN [threw |-> FALSE, confidence |-> ANALYSIS_FAILED_CONFIDENCE, recommendations |-> 1]
    ELSE [threw |-> FALSE] @@ parseAdvancedTryOnResponse(reply)

\* generateTryOn (GeminiIntegration): the confidence it reports for an analysis.
generateTryOnConfidence(analysis) ==
  OrDefault(analysis.confidence, GENERATE_DEFAULT_CONFIDENCE)

\* addSafetyWatermark: attaches the watermark and marks the content AI-generated.
addSafetyWatermark(content) ==
  [content EXCEPT !.watermark = TRUE, !.isAIGenerated = TRUE]

\* ---------------------------------------------------------- TryOnGenerator
NoResult ==
  [exists |-> FALSE, recommendations |-> 0, confidence |-> undefined,
   generatedImage |-> "none", processingMethod |-> NO_TAG, watermark |-> FALSE,
   isAIGenerated |-> FALSE, mock |-> FALSE, hasGeneratedImage |-> FALSE,
   id |-> FALSE, version |-> "none", thumbnail |-> "none",
   qualityScore |-> undefined, savedId |-> FALSE]

\* performAITryOn, lines 1359 and 1364: the verdict that aborts the run.
SafetyRejects(check) == ~check.safe /\ check.recommendation = "reject"

\* performAITryOn, lines 1396-1410: the result built from a generated image
\* and its analysis.
BuildAIResult(generatedImage, analysis) ==
  addSafetyWatermark(
    [NoResult EXCEPT
       !.exists = TRUE,
       !.recommendations = analysis.recommendations,
       !.confidence = OrDefault(generateTryOnConfidence(analysis), TRYON_DEFAULT_CONFIDENCE),
       !.generatedImage = generatedImage,
       !.processingMethod = GEMINI_TAG,
       !.hasGeneratedImage = (generatedImage # "none")])

\* Faulty variant of generateEnhancedMockTryOn: hands out the canned result
\* without the watermark.
generateEnhancedMockTryOnUnmarked(hasGemini) ==
  [NoResult EXCEPT
     !.exists = TRUE,
     !.recommendations = 1,
     !.confidence = MOCK_CONFIDENCE,
     !.processingMethod = MOCK_TAG,
     !.mock = TRUE]

\* generateEnhancedMockTryOn: the canned result, watermarked when a
\* GeminiIntegration exists.
generateEnhancedMockTryOn(hasGemini) ==
  LET mockResult == [NoResult EXCEPT
                       !.exists = TRUE,
                       !.recommendations = 1,
                       !.confidence = MOCK_CONFIDENCE,
                       !.processingMethod = MOCK_TAG]
  IN IF hasGemini THEN addSafetyWatermark(mockResult)
     ELSE [mockResult EXCEPT !.isAIGenerated = FALSE, !.mock = TRUE]

Clamp01(score) == Min(Max(score, 0), ONE)

\* Faulty variant of calculateQualityScore: the sum is returned as it is.
calculateQualityScoreUnclamped(result) ==
  LET base == BASE_SCORE
      conf == IF result.confidence # undefined /\ result.confidence # 0
                THEN (result.confidence * CONFIDENCE_WEIGHT) \div ONE ELSE 0
      method == IF result.processingMethod = SCORED_TAG THEN METHOD_BONUS ELSE 0
      recs == IF result.recommendations > 0
                THEN Min(result.recommendations * REC_STEP, REC_CAP) ELSE 0
  IN base + conf + method + recs

\* calculateQualityScore, in thousandths.
calculateQualityScore(result) ==
  LET base == BASE_SCORE
      conf == IF result.confidence # undefined /\ result.confidence # 0
                THEN (result.confidence * CONFIDENCE_WEIGHT) \div ONE ELSE 0
      method == IF result.processingMethod = SCORED_TAG THEN METHOD_BONUS ELSE 0
      recs == IF result.recommendations > 0
                THEN Min(result.recommendations * REC_STEP, REC_CAP) ELSE 0
  IN Clamp01(base + conf + method + recs)

\* createResultThumbnail: from the generated image when there is one and the
\* image processor manages it, else the SVG placeholder.
createResultThumbnail(result, thumbOk) ==
  IF result.generatedImage # "none" /\ thumbOk THEN "image" ELSE "svg"

\* Faulty variant of postProcessResult: a thumbnail that cannot be made
\* lands in the outer catch, which returns the result as it came.
postProcessResultGivesUp(result, thumbOk) ==
  IF result.generatedImage # "none" /\ ~thumbOk
    THEN result
    ELSE LET stamped == [result EXCEPT !.id = TRUE, !.version = "1.0"]
             withThumb ==
               [stamped EXCEPT !.thumbnail = createResultThumbnail(stamped, thumbOk)]
         IN [withThumb EXCEPT !.qualityScore = calculateQualityScore(withThumb)]

\* postProcessResult: id, version, thumbnail and quality score.
postProcessResult(result, thumbOk) ==
  LET stamped == [result EXCEPT !.id = TRUE, !.version = "1.0"]
      withThumb == [stamped EXCEPT !.thumbnail = createResultThumbnail(stamped, thumbOk)]
  IN [withThumb EXCEPT !.qualityScore = calculateQualityScore(withThumb)]

\* A date is <<year, month, day>>; a lastRequest that is null is <<>>. The
\* dates of the model are a first day, the next day, the same day of the
\* next month and the same day and month of the next year.
NoDate == <<>>
Dates == {<<0, 0, 0>>, <<0, 0, 1>>, <<0, 1, 0>>, <<1, 0, 0>>}
Epoch == <<0, 0, 0>>

\* Date.toDateString: the calendar day of a date.
toDateString(date) == date

\* `${date.getFullYear()}-${date.getMonth()}`: the month of a date.
YearMonth(date) == <<date[1], date[2]>>

\* Faulty variant of updateUsageStats: the day of the month and the month of
\* the year are compared instead of the whole dates.
updateUsageStatsByNumber(stats, success, date) ==
  [requestsToday |-> IF stats.lastRequest # NoDate /\ stats.lastRequest[3] = date[3]
                       THEN stats.requestsToday + 1 ELSE 1,
   requestsThisMonth |-> IF stats.lastRequest # NoDate /\ stats.lastRequest[2] = date[2]
                           THEN stats.requestsThisMonth + 1 ELSE 1,
   lastRequest |-> date,
   totalRequests |-> stats.totalRequests + 1,
   errorCount |-> IF success THEN stats.errorCount ELSE stats.errorCount + 1]

\* updateUsageStats, lines 769-781: the day and month counters restart at one
\* when the last request was on another day or in another month, all counters
\* but errorCount go up by one, and errorCount does unless success.
updateUsageStats(stats, success, date) ==
  LET lastRequestDate ==
        IF stats.lastRequest # NoDate THEN <<toDateString(stats.lastRequest)>>
                                      ELSE <<>>
      lastRequestMonth ==
        IF stats.lastRequest # NoDate THEN <<YearMonth(stats.lastRequest)>>
                                      ELSE <<>>
  IN [requestsToday |-> IF lastRequestDate = <<toDateString(date)>>
                          THEN stats.requestsToday + 1 ELSE 1,
      requestsThisMonth |-> IF lastRequestMonth = <<YearMonth(date)>>
                              THEN stats.requestsThisMonth + 1 ELSE 1,
      lastRequest |-> date,
      totalRequests |-> stats.totalRequests + 1,
      errorCount |-> IF success THEN stats.errorCount ELSE stats.errorCount + 1]

\* ------------------------------------------------------------------ Init
\* Photo ids a request can name (0: none given) and the photo sets the store
\* can hold.
RequestPhotoIds == {0, 1, 2}
StoredPhotoSets == {{}, {1}}

NoImageResult == [success |-> FALSE, generatedImage |-> "none"]

\* getUsageStats, lines 740-746 and 751-757: the counters when nothing is
\* stored or the read fails.
ZeroStats ==
  [requestsToday |-> 0, requestsThisMonth |-> 0, lastRequest |-> NoDate,
   totalRequests |-> 0, errorCount |-> 0]

\* Runs that update the usage counters, and the largest number of
\* updateUsageStats calls one run makes.
NumRuns == 2
MaxUpdates == 1
Runs == 1..NumRuns

\* No updateUsageStats call is in progress outside the run.
UpdatersIdle ==
  /\ updaters = [p \in Runs |-> [pc |-> "idle", stats |-> ZeroStats,
                                 success |-> TRUE, date |-> NoDate, done |-> 0]]
  /\ usageLog = [updates |-> 0, failed |-> 0]
  /\ now = Epoch

\* The popup is closed.
PopupIdle ==
  /\ popupTryOns = <<>>
  /\ added = 0

\* No ImageProcessor call is being made.
NoCall == [fn |-> "none"]

ProcessorIdle ==
  /\ procArgs = NoCall
  /\ procResult = NoCall

\* The constructor of VirtualTryOnContent, content.js lines 5-9: selection
\* mode is off and no image has a click listener.
ContentIdle ==
  contentScript = [isSelectionMode |-> FALSE, listeners |-> {}, binds |-> 0,
             entered |-> 0, clicks |-> 0, activeClicks |-> 0, shots |-> 0,
             extracting |-> 0, failed |-> 0, awaiting |-> 0, sent |-> <<>>]

ElsewhereIdle == PopupIdle /\ ProcessorIdle /\ ContentIdle

NoMessage ==
  [action |-> "none", type |-> "none", autoTryOn |-> FALSE, image |-> "none",
   clothingItems |-> 0, userPhotoId |-> 0, tryOnId |-> 0, refinementPrompt |-> FALSE]

NoDetection ==
  [processed |-> FALSE, type |-> "none", aiItems |-> 0, mockItems |-> 0,
   error |-> FALSE, rawText |-> FALSE, processingMethod |-> NO_TAG,
   reply |-> "none"]

\* No message is being handled.
HandlerIdle ==
  /\ message = NoMessage
  /\ profile = [apiKey |-> "none", photos |-> FALSE]
  /\ recentTryOns = <<>>
  /\ hpc = "idle"
  /\ detection = NoDetection
  /\ fetches = [k \in {"Detect", "Refine"} |-> 0]
  /\ refineReply = NoGenerateReply
  /\ responses = <<>>
  /\ heldTryOns = <<>>

\* Nothing of a generateTryOn run has happened yet.
RunFresh ==
  /\ stages = <<>>
  /\ finished = {}
  /\ calls = [s \in NetStages |-> 0]
  /\ userCheck = NoCheck
  /\ clothCheck = NoCheck
  /\ genReply = NoGenerateReply
  /\ anaReply = NoAnalyzeReply
  /\ imageResult = NoImageResult
  /\ tryOnResult = NoResult
  /\ returned = "none"
  /\ store = <<>>
  /\ usage = ZeroStats
  /\ wire = <<>>

Init ==
  /\ geminiIntegration \in BOOLEAN
  /\ apiKey \in BOOLEAN
  /\ apiKey => geminiIntegration
  /\ hasDocument \in BOOLEAN
  /\ db \in BOOLEAN
  /\ userPhotos \in StoredPhotoSets
  /\ request \in [userPhotoId : RequestPhotoIds, hasClothingItem : BOOLEAN,
                  saveResult : BOOLEAN]
  /\ pc = "start"
  /\ RunFresh
  /\ UpdatersIdle
  /\ ElsewhereIdle
  /\ HandlerIdle

\* ------------------------------------------------------------- requests
\* The constructor, lines 6-7: the endpoint of the text model and the
\* endpoint of the image model.
BASE_URL == "gemini-2.5-flash:generateContent"
IMAGE_MODEL == "gemini-2.5-flash-image-preview:generateContent"

TEXT == "TEXT"
IMAGE == "IMAGE"

\* The stage of the request refineGeneratedImage sends.
REFINE == "Refine"

\* A request body: the number of inline images among its parts and the
\* response_modalities of its generationConfig, none when the key is absent.
\* validateImageSafety, lines 696-712.
SafetyRequestBody == [images |-> 1, response_modalities |-> {}]

\* Faulty variant of GenerateRequestBody: no modality is asked for.
GenerateRequestBodyPlain == [images |-> 2, response_modalities |-> {}]

\* generateTryOnImage, lines 116-159.
GenerateRequestBody == [images |-> 2, response_modalities |-> {TEXT, IMAGE}]

\* analyzeTryOnResult, lines 191-209.
AnalyzeRequestBody == [images |-> 1, response_modalities |-> {}]

\* refineGeneratedImage, lines 564-582.
RefineRequestBody == [images |-> 1, response_modalities |-> {}]

\* makeApiCall, lines 318-332: the body is posted as it was built, to the
\* endpoint given or else to baseUrl.
makeApiCall(stage, requestBody, modelUrl) ==
  [stage |-> stage, url |-> modelUrl, body |-> requestBody]

\* What no step of a run changes, the requests sent apart.
beyondWire == <<geminiIntegration, apiKey, hasDocument, db, userPhotos, request,
                beyondRun>>

environment == <<beyondWire, wire>>

\* --------------------------------------------------------------- actions
\* Faulty variant of ValidateInputs: the photo is not looked up in the store.
ValidateInputsSkipsLookup ==
  /\ pc = "start"
  /\ stages' = Append(stages, VALIDATE)
  /\ finished' = finished \cup {VALIDATE}
  /\ IF /\ request.userPhotoId # 0
        /\ request.hasClothingItem
       THEN pc' = "prepareUserPhoto" /\ UNCHANGED returned
       ELSE pc' = "done" /\ returned' = "error"
  /\ UNCHANGED <<environment, calls, userCheck, clothCheck, genReply, anaReply,
                 imageResult, tryOnResult, store, usage>>

\* generateTryOn, lines 1215-1226: the inputs are there and the photo is stored.
ValidateInputs ==
  /\ pc = "start"
  /\ stages' = Append(stages, VALIDATE)
  /\ finished' = finished \cup {VALIDATE}
  /\ IF /\ request.userPhotoId # 0
        /\ request.hasClothingItem
        /\ db
        /\ request.userPhotoId \in userPhotos
       THEN pc' = "prepareUserPhoto" /\ UNCHANGED returned
       ELSE pc' = "done" /\ returned' = "error"
  /\ UNCHANGED <<environment, calls, userCheck, clothCheck, genReply, anaReply,
                 imageResult, tryOnResult, store, usage>>

\* generateTryOn, line 1229: prepareUserPhoto needs the image processor, which
\* works on a document's Image and canvas; its failure ends the run.
PrepareUserPhoto ==
  /\ pc = "prepareUserPhoto"
  /\ stages' = Append(stages, PREPARE_SUBJECT)
  /\ finished' = finished \cup {PREPARE_SUBJECT}
  /\ \E ok \in BOOLEAN :
       /\ ok => hasDocument
       /\ IF ok THEN pc' = "prepareClothingItem" /\ UNCHANGED returned
               ELSE pc' = "done" /\ returned' = "error"
  /\ UNCHANGED <<environment, calls, userCheck, clothCheck, genReply, anaReply,
                 imageResult, tryOnResult, store, usage>>

\* generateTryOn, line 1230: prepareClothingItem, likewise.
PrepareClothingItem ==
  /\ pc = "prepareClothingItem"
  /\ stages' = Append(stages, PREPARE_GARMENT)
  /\ finished' = finished \cup {PREPARE_GARMENT}
  /\ \E ok \in BOOLEAN :
       /\ ok => hasDocument
       /\ IF ok THEN pc' = "safetyUser" /\ UNCHANGED returned
               ELSE pc' = "done" /\ returned' = "error"
  /\ UNCHANGED <<environment, calls, userCheck, clothCheck, genReply, anaReply,
                 imageResult, tryOnResult, store, usage>>

\* The pc after a safety verdict: a rejection is thrown into performAITryOn's catch.
AfterSafety(check, next) == IF SafetyRejects(check) THEN "catch" ELSE next

\* performAITryOn, line 1358: validateImageSafety(userPhoto.data) is called.
\* Without a GeminiIntegration the call itself throws; without an API key it
\* answers at once; otherwise the request goes out.
SafetySubjectCall ==
  /\ pc = "safetyUser"
  /\ IF ~geminiIntegration
       THEN /\ pc' = "catch"
            /\ UNCHANGED <<stages, finished, calls, userCheck, wire>>
       ELSE IF ~apiKey
         THEN /\ userCheck' = validateImageSafety(FALSE, NoCheck)
              /\ stages' = Append(stages, SAFETY_SUBJECT)
              /\ finished' = finished \cup {SAFETY_SUBJECT}
              /\ pc' = AfterSafety(userCheck', "safetyCloth")
              /\ UNCHANGED <<calls, wire>>
         ELSE /\ calls' = [calls EXCEPT ![SAFETY_SUBJECT] = @ + 1]
              /\ wire' = Append(wire, makeApiCall(SAFETY_SUBJECT, SafetyRequestBody, BASE_URL))
              /\ stages' = Append(stages, SAFETY_SUBJECT)
              /\ pc' = "safetyUserWait"
              /\ UNCHANGED <<finished, userCheck>>
  /\ UNCHANGED <<beyondWire, clothCheck, genReply, anaReply, imageResult,
                 tryOnResult, returned, store, usage>>

\* Faulty variant of SafetySubjectReturn: a failed request is sent again.
SafetySubjectReturnRetries ==
  /\ pc = "safetyUserWait"
  /\ \E reply \in SafetyReplies :
       /\ userCheck' = validateImageSafety(TRUE, reply)
       /\ pc' = IF reply.kind = "error" THEN "safetyUser"
                 ELSE AfterSafety(userCheck', "safetyCloth")
  /\ finished' = finished \cup {SAFETY_SUBJECT}
  /\ UNCHANGED <<environment, stages, calls, clothCheck, genReply, anaReply,
                 imageResult, tryOnResult, returned, store, usage>>

\* validateImageSafety, lines 714-733, and performAITryOn, lines 1359-1361.
SafetySubjectReturn ==
  /\ pc = "safetyUserWait"
  /\ \E reply \in SafetyReplies :
       /\ userCheck' = validateImageSafety(TRUE, reply)
       /\ pc' = AfterSafety(userCheck', "safetyCloth")
  /\ finished' = finished \cup {SAFETY_SUBJECT}
  /\ UNCHANGED <<environment, stages, calls, clothCheck, genReply, anaReply,
                 imageResult, tryOnResult, returned, store, usage>>

\* performAITryOn, line 1363: validateImageSafety(clothingItem.data) is called.
SafetyGarmentCall ==
  /\ pc = "safetyCloth"
  /\ IF ~apiKey
       THEN /\ clothCheck' = validateImageSafety(FALSE, NoCheck)
            /\ stages' = Append(stages, SAFETY_GARMENT)
            /\ finished' = finished \cup {SAFETY_GARMENT}
            /\ pc' = AfterSafety(clothCheck', "updateUsage")
            /\ UNCHANGED <<calls, wire>>
       ELSE /\ calls' = [calls EXCEPT ![SAFETY_GARMENT] = @ + 1]
            /\ wire' = Append(wire, makeApiCall(SAFETY_GARMENT, SafetyRequestBody, BASE_URL))
            /\ stages' = Append(stages, SAFETY_GARMENT)
            /\ pc' = "safetyClothWait"
            /\ UNCHANGED <<finished, clothCheck>>
  /\ UNCHANGED <<beyondWire, userCheck, genReply, anaReply, imageResult,
                 tryOnResult, returned, store, usage>>

\* validateImageSafety, lines 714-733, and performAITryOn, lines 1364-1366.
SafetyGarmentReturn ==
  /\ pc = "safetyClothWait"
  /\ \E reply \in SafetyReplies :
       /\ clothCheck' = validateImageSafety(TRUE, reply)
       /\ pc' = AfterSafety(clothCheck', "updateUsage")
  /\ finished' = finished \cup {SAFETY_GARMENT}
  /\ UNCHANGED <<environment, stages, calls, userCheck, genReply, anaReply,
                 imageResult, tryOnResult, returned, store, usage>>

\* performAITryOn, line 1381: updateUsageStats(true) before the generation.
UpdateUsage ==
  /\ pc = "updateUsage"
  /\ usage' = updateUsageStats(usage, TRUE, now)
  /\ pc' = "generate"
  /\ UNCHANGED <<environment, stages, finished, calls, userCheck, clothCheck,
                 genReply, anaReply, imageResult, tryOnResult, returned, store>>

\* performAITryOn, line 1384: GeminiIntegration.generateTryOn throws without an
\* API key (lines 81-83), else generateTryOnImage sends the Generate request.
GenerateCall ==
  /\ pc = "generate"
  /\ stages' = Append(stages, GENERATE)
  /\ IF ~apiKey
       THEN /\ pc' = "catch"
            /\ finished' = finished \cup {GENERATE}
            /\ UNCHANGED <<calls, wire>>
       ELSE /\ calls' = [calls EXCEPT ![GENERATE] = @ + 1]
            /\ wire' = Append(wire, makeApiCall(GENERATE, GenerateRequestBody, IMAGE_MODEL))
            /\ pc' = "generateWait"
            /\ UNCHANGED finished
  /\ UNCHANGED <<beyondWire, userCheck, clothCheck, genReply, anaReply,
                 imageResult, tryOnResult, returned, store, usage>>

\* Faulty variant of GenerateReturn: a failed generation is tried again.
GenerateReturnRetries ==
  /\ pc = "generateWait"
  /\ \E reply \in GenerateReplies :
       /\ genReply' = reply
       /\ imageResult' = generateTryOnImage(reply, hasDocument)
  /\ pc' = IF imageResult'.success THEN "analyze" ELSE "generate"
  /\ finished' = finished \cup {GENERATE}
  /\ UNCHANGED <<environment, stages, calls, userCheck, clothCheck, anaReply,
                 tryOnResult, returned, store, usage>>

\* generateTryOnImage, lines 161-184, and generateTryOn, lines 88-90: without
\* an image the error is thrown into performAITryOn's catch.
GenerateReturn ==
  /\ pc = "generateWait"
  /\ \E reply \in GenerateReplies :
       /\ genReply' = reply
       /\ imageResult' = generateTryOnImage(reply, hasDocument)
  /\ pc' = IF imageResult'.success THEN "analyze" ELSE "catch"
  /\ finished' = finished \cup {GENERATE}
  /\ UNCHANGED <<environment, stages, calls, userCheck, clothCheck, anaReply,
                 tryOnResult, returned, store, usage>>

\* generateTryOn, line 93: analyzeTryOnResult sends the Analyze request.
AnalyzeCall ==
  /\ pc = "analyze"
  /\ stages' = Append(stages, ANALYZE)
  /\ calls' = [calls EXCEPT ![ANALYZE] = @ + 1]
  /\ wire' = Append(wire, makeApiCall(ANALYZE, AnalyzeRequestBody, BASE_URL))
  /\ pc' = "analyzeWait"
  /\ UNCHANGED <<beyondWire, finished, userCheck, clothCheck, genReply, anaReply,
                 imageResult, tryOnResult, returned, store, usage>>

\* analyzeTryOnResult, lines 211-222, generateTryOn, lines 95-109, and
\* performAITryOn, lines 1390-1412: the watermarked result of the AI path. An
\* exception leaving analyzeTryOnResult would land in performAITryOn's catch.
AnalyzeReturn ==
  /\ pc = "analyzeWait"
  /\ \E reply \in AnalyzeReplies :
       /\ anaReply' = reply
       /\ LET analysis == analyzeTryOnResult(reply)
          IN IF analysis.threw
               THEN pc' = "catch" /\ UNCHANGED tryOnResult
               ELSE /\ pc' = "postProcess"
                    /\ tryOnResult' = BuildAIResult(imageResult.generatedImage, analysis)
  /\ finished' = finished \cup {ANALYZE}
  /\ UNCHANGED <<environment, stages, calls, userCheck, clothCheck, genReply,
                 imageResult, returned, store, usage>>

\* Faulty variant of CatchFallback: the catch counts the error and throws it on.
CatchFallbackRethrows ==
  /\ pc = "catch"
  /\ pc' = "done"
  /\ returned' = "error"
  /\ usage' = IF geminiIntegration THEN updateUsageStats(usage, FALSE, now) ELSE usage
  /\ UNCHANGED <<environment, stages, finished, calls, userCheck, clothCheck,
                 genReply, anaReply, imageResult, tryOnResult, store>>

\* performAITryOn, lines 1414-1420: the catch counts an error and answers with
\* the mock result. Without a GeminiIntegration the catch itself throws, and
\* generateTryOn's catch (lines 1258-1269) returns the error.
CatchFallback ==
  /\ pc = "catch"
  /\ IF ~geminiIntegration
       THEN /\ pc' = "done"
            /\ returned' = "error"
            /\ UNCHANGED <<usage, tryOnResult>>
       ELSE /\ usage' = updateUsageStats(usage, FALSE, now)
            /\ tryOnResult' = generateEnhancedMockTryOn(geminiIntegration)
            /\ pc' = "postProcess"
            /\ UNCHANGED returned
  /\ UNCHANGED <<environment, stages, finished, calls, userCheck, clothCheck,
                 genReply, anaReply, imageResult, store>>

\* generateTryOn, line 1240: postProcessResult.
PostProcess ==
  /\ pc = "postProcess"
  /\ stages' = Append(stages, POSTPROCESS)
  /\ finished' = finished \cup {POSTPROCESS}
  /\ \E thumbOk \in BOOLEAN : tryOnResult' = postProcessResult(tryOnResult, thumbOk)
  /\ pc' = IF request.saveResult THEN "persist" ELSE "return"
  /\ UNCHANGED <<environment, calls, userCheck, clothCheck, genReply, anaReply,
                 imageResult, returned, store, usage>>

\* The record StorageManager.saveTryOnResult adds for a result.
ResultRecord(result) ==
  [processingMethod |-> result.processingMethod,
   confidence |-> result.confidence,
   qualityScore |-> result.qualityScore,
   watermark |-> result.watermark]

\* Faulty variant of Persist: the record is added twice.
PersistWritesTwice ==
  /\ pc = "persist"
  /\ stages' = Append(stages, PERSIST)
  /\ finished' = finished \cup {PERSIST}
  /\ \E ok \in BOOLEAN :
       IF ok
         THEN /\ store' = Append(Append(store, ResultRecord(tryOnResult)),
                                 ResultRecord(tryOnResult))
              /\ tryOnResult' = [tryOnResult EXCEPT !.savedId = TRUE]
         ELSE UNCHANGED <<store, tryOnResult>>
  /\ pc' = "return"
  /\ UNCHANGED <<environment, calls, userCheck, clothCheck, genReply, anaReply,
                 imageResult, returned, usage>>

\* Faulty variant of Persist: a failure of the store ends the run with an error.
PersistFailureThrows ==
  /\ pc = "persist"
  /\ stages' = Append(stages, PERSIST)
  /\ finished' = finished \cup {PERSIST}
  /\ \E ok \in BOOLEAN :
       IF ok
         THEN /\ store' = Append(store, ResultRecord(tryOnResult))
              /\ tryOnResult' = [tryOnResult EXCEPT !.savedId = TRUE]
              /\ pc' = "return"
              /\ UNCHANGED returned
         ELSE /\ pc' = "done"
              /\ returned' = "error"
              /\ UNCHANGED <<store, tryOnResult>>
  /\ UNCHANGED <<environment, calls, userCheck, clothCheck, genReply, anaReply,
                 imageResult, usage>>

\* generateTryOn, lines 1243-1245: saveTryOnResult adds the record; a failure
\* of the store is logged and swallowed.
Persist ==
  /\ pc = "persist"
  /\ stages' = Append(stages, PERSIST)
  /\ finished' = finished \cup {PERSIST}
  /\ \E ok \in BOOLEAN :
       IF ok
         THEN /\ store' = Append(store, ResultRecord(tryOnResult))
              /\ tryOnResult' = [tryOnResult EXCEPT !.savedId = TRUE]
         ELSE UNCHANGED <<store, tryOnResult>>
  /\ pc' = "return"
  /\ UNCHANGED <<environment, calls, userCheck, clothCheck, genReply, anaReply,
                 imageResult, returned, usage>>

\* generateTryOn, lines 1247-1256: the result is returned with success: true.
Return ==
  /\ pc = "return"
  /\ returned' = "success"
  /\ pc' = "done"
  /\ UNCHANGED <<environment, stages, finished, calls, userCheck, clothCheck,
                 genReply, anaReply, imageResult, tryOnResult, store, usage>>

Next ==
  \/ ValidateInputs
  \/ PrepareUserPhoto
  \/ PrepareClothingItem
  \/ SafetySubjectCall
  \/ SafetySubjectReturn
  \/ SafetyGarmentCall
  \/ SafetyGarmentReturn
  \/ UpdateUsage
  \/ GenerateCall
  \/ GenerateReturn
  \/ AnalyzeCall
  \/ AnalyzeReturn
  \/ CatchFallback
  \/ PostProcess
  \/ Persist
  \/ Return

Spec == Init /\ [][Next]_vars

\* ------------------------------------------------- scoring of any result
\* Confidences (thousandths) of the results handed to postProcessResult:
\* whatever number the Analyze reply carried, `|| 0.8` having replaced 0.
ScoreConfidences == {0 - 5000, 0 - 1700, 0 - 500, 1, 850, 900, 1000, 1500, 95000}

\* performAITryOn has returned a result, of the external service or the
\* canned one, tagged by this generator or by that of lib/tryon-generator.js;
\* the state of the run is reduced to that result.
ScoreInit ==
  /\ geminiIntegration = TRUE
  /\ apiKey = TRUE
  /\ hasDocument = TRUE
  /\ db = TRUE
  /\ userPhotos = {1}
  /\ request \in [userPhotoId : {1}, hasClothingItem : {TRUE}, saveResult : BOOLEAN]
  /\ pc = "postProcess"
  /\ stages = <<>>
  /\ finished = {}
  /\ calls = [s \in NetStages |-> 0]
  /\ userCheck = NoCheck
  /\ clothCheck = NoCheck
  /\ genReply = NoGenerateReply
  /\ anaReply = NoAnalyzeReply
  /\ imageResult = NoImageResult
  /\ \E confidence \in ScoreConfidences, recommendations \in 0..(MaxRecs + 1),
        method \in {GEMINI_TAG, SCORED_TAG, MOCK_TAG} :
       tryOnResult = [NoResult EXCEPT !.exists = TRUE,
                                      !.recommendations = recommendations,
                                      !.confidence = confidence,
                                      !.processingMethod = method]
  /\ returned = "none"
  /\ store = <<>>
  /\ usage = ZeroStats
  /\ wire = <<>>
  /\ UpdatersIdle
  /\ ElsewhereIdle
  /\ HandlerIdle

ScoreNext == PostProcess

ScoreSpec == ScoreInit /\ [][ScoreNext]_vars

\* ------------------------------------------- concurrent usage-counter updates
\* getUsageStats: the stored counters, or zeros when the read fails.
getUsageStats(stored, ok) == IF ok THEN stored ELSE ZeroStats

\* The state of the runs is reduced to their updateUsageStats calls: every
\* run shares one GeminiIntegration key of chrome.storage.local.
UsageInit ==
  /\ geminiIntegration = TRUE
  /\ apiKey = TRUE
  /\ hasDocument = TRUE
  /\ db = TRUE
  /\ userPhotos = {1}
  /\ request = [userPhotoId |-> 1, hasClothingItem |-> TRUE, saveResult |-> TRUE]
  /\ pc = "idle"
  /\ RunFresh
  /\ UpdatersIdle
  /\ ElsewhereIdle
  /\ HandlerIdle

\* updateUsageStats, lines 764-765: `await this.getUsageStats()` reads the
\* counters and `new Date()` the clock; the run then waits for the storage and
\* other runs go on.
UsageRead(p) ==
  /\ updaters[p].pc = "idle"
  /\ updaters[p].done < MaxUpdates
  /\ \E success \in BOOLEAN, ok \in BOOLEAN :
       /\ updaters' = [updaters EXCEPT ![p] =
                         [pc |-> "read", stats |-> getUsageStats(usage, ok),
                          success |-> success, date |-> now, done |-> @.done]]
       /\ usageLog' = [usageLog EXCEPT !.failed = IF ok THEN @ ELSE @ + 1]
  /\ UNCHANGED <<geminiIntegration, apiKey, hasDocument, db, userPhotos, request,
                 pc, stages, finished, calls, userCheck, clothCheck, genReply,
                 anaReply, imageResult, tryOnResult, returned, store, usage, wire,
                 now, handlerState, elsewhere>>

\* Faulty variant of UsageWrite: the counters are read again and written in
\* one step, so that no other run comes between.
UsageWriteSerialised(p) ==
  /\ updaters[p].pc = "read"
  /\ \E ok \in BOOLEAN :
       /\ usage' = IF ok THEN updateUsageStats(usage, updaters[p].success, updaters[p].date)
                         ELSE usage
       /\ usageLog' = [updates |-> usageLog.updates + 1,
                       failed |-> IF ok THEN usageLog.failed ELSE usageLog.failed + 1]
  /\ updaters' = [updaters EXCEPT ![p].pc = "idle", ![p].done = @ + 1]
  /\ UNCHANGED <<geminiIntegration, apiKey, hasDocument, db, userPhotos, request,
                 pc, stages, finished, calls, userCheck, clothCheck, genReply,
                 anaReply, imageResult, tryOnResult, returned, store, wire, now,
                 handlerState, elsewhere>>

\* updateUsageStats, lines 775-786: the counters computed from what was read
\* are written; a failure of the write is logged and swallowed.
UsageWrite(p) ==
  /\ updaters[p].pc = "read"
  /\ \E ok \in BOOLEAN :
       /\ usage' = IF ok THEN updateUsageStats(updaters[p].stats, updaters[p].success,
                                           updaters[p].date)
                         ELSE usage
       /\ usageLog' = [updates |-> usageLog.updates + 1,
                       failed |-> IF ok THEN usageLog.failed ELSE usageLog.failed + 1]
  /\ updaters' = [updaters EXCEPT ![p].pc = "idle", ![p].done = @ + 1]
  /\ UNCHANGED <<geminiIntegration, apiKey, hasDocument, db, userPhotos, request,
                 pc, stages, finished, calls, userCheck, clothCheck, genReply,
                 anaReply, imageResult, tryOnResult, returned, store, wire, now,
                 handlerState, elsewhere>>

UsageNext ==
  \/ \E p \in Runs : UsageRead(p)
  \/ \E p \in Runs : UsageWrite(p)

UsageSpec == UsageInit /\ [][UsageNext]_vars

\* ------------------------------------------------ usage updates over the days
\* a is an earlier date than b.
Earlier(a, b) ==
  \/ a[1] < b[1]
  \/ a[1] = b[1] /\ a[2] < b[2]
  \/ a[1] = b[1] /\ a[2] = b[2] /\ a[3] < b[3]

\* Time passes: `new Date()` (line 765) returns a later date from now on.
Tick ==
  /\ \E date \in Dates : Earlier(now, date) /\ now' = date
  /\ UNCHANGED <<geminiIntegration, apiKey, hasDocument, db, userPhotos, request,
                 pc, stages, finished, calls, userCheck, clothCheck, genReply,
                 anaReply, imageResult, tryOnResult, returned, store, usage, wire,
                 updaters, usageLog, handlerState, elsewhere>>

\* The runs of the first two tabs update the counters while the days go by.
DatedNext ==
  \/ \E p \in Runs : p <= 2 /\ UsageRead(p)
  \/ \E p \in Runs : p <= 2 /\ UsageWrite(p)
  \/ Tick

DatedUsageSpec == UsageInit /\ [][DatedNext]_vars

\* ------------------------------------------ background.js message handlers
\* Largest number of items a Detect response lists.
MaxItems == 2

\* processingMethod tags of the detection results.
DETECT_TAG == "gemini-ai"
FALLBACK_MOCK_TAG == "fallback-mock"
NO_KEY_TAG == "mock-no-api-key"

\* The messages the listener can receive. type and autoTryOn are the options
\* of processImage (autoTryOn FALSE: the option is given as false), image is
\* the field of imageData that holds the picture, clothingItems the number of
\* items a generateTryOn message carries, userPhotoId and tryOnId 0 when the
\* message gives none.
Messages ==
  [action : {"processImage"}, type : {"clothing_detection", "other"},
   autoTryOn : BOOLEAN, image : {"url", "base64", "dataUrl"},
   clothingItems : {0}, userPhotoId : {0}, tryOnId : {0},
   refinementPrompt : {FALSE}]
  \cup [action : {"generateTryOn"}, type : {"none"}, autoTryOn : {FALSE},
        image : {"none"}, clothingItems : {0, 1}, userPhotoId : RequestPhotoIds,
        tryOnId : {0}, refinementPrompt : {FALSE}]
  \cup [action : {"refineImage"}, type : {"none"}, autoTryOn : {FALSE},
        image : {"none"}, clothingItems : {0}, userPhotoId : {0},
        tryOnId : {0, 1, 2}, refinementPrompt : BOOLEAN]
  \cup {[NoMessage EXCEPT !.action = "unknown"]}

\* userProfile.apiKey as stored: missing, at most ten characters, or longer;
\* photos: the photos kept in chrome.storage.local.
Profiles == [apiKey : {"none", "short", "valid"}, photos : BOOLEAN]

\* The stored history: no entry, or the entry 1 with or without a generated
\* image under result.tryOnData.
\* refineGeneratedImage, line 589: the data URL made of an image, null without one.
DataUrl(image) == IF image = "none" THEN <<>> ELSE <<"data:image/jpeg;base64,", image>>

\* handleImageRefinement, lines 641-644: the entry a refinement leaves in
\* tryOnData.refinements.
Refinement(prompt, date) == [prompt |-> prompt, timestamp |-> date]

\* The prompt of the refineImage message being handled.
REQUEST_PROMPT == "request.refinementPrompt"

HistoryEntry(image) ==
  [id |-> 1, generatedImage |-> image, imageUrl |-> DataUrl(image),
   refinements |-> <<>>]
Histories == {<<>>, <<HistoryEntry("none")>>, <<HistoryEntry("original")>>}

\* A Detect reply: the request failed, the response has no candidates, its
\* text holds no {...}, holds one that is not JSON, or holds a JSON object
\* listing some items.
DetectReplies ==
  [kind : {"error", "nocandidates", "nojson", "badjson"}, items : {0}]
  \cup [kind : {"json"}, items : 0..MaxItems]

\* GeminiIntegration.parseClothingDetectionResponse: text without {...}
\* gives an empty list with the raw text; text that is not JSON, or a
\* response without candidates, gives {success: false}.
parseClothingDetectionResponse(reply) ==
  IF reply.kind = "json"
    THEN [success |-> TRUE, items |-> reply.items, rawText |-> FALSE]
  ELSE IF reply.kind = "nojson"
    THEN [success |-> TRUE, items |-> 0, rawText |-> TRUE]
  ELSE [success |-> FALSE, items |-> 0, rawText |-> FALSE]

\* callGeminiAPI, lines 424-468, on the reply of its request: a failed
\* request, a response without candidates and text that cannot be parsed all
\* throw.
callGeminiAPI(reply) ==
  IF reply.kind = "json"
    THEN [threw |-> FALSE, items |-> reply.items]
    ELSE [threw |-> TRUE, items |-> 0]

\* getFallbackMockResponse: the detection answered without an API key.
getFallbackMockResponse ==
  [processed |-> TRUE, type |-> "clothing_detected_mock", aiItems |-> 0,
   mockItems |-> 1, error |-> FALSE, rawText |-> FALSE,
   processingMethod |-> NO_KEY_TAG, reply |-> "none"]

\* processImageWithAI, lines 265-288: the detection answered when callGeminiAPI
\* threw.
FallbackDetection(kind) ==
  [processed |-> TRUE, type |-> "clothing_detected_fallback", aiItems |-> 0,
   mockItems |-> 1, error |-> TRUE, rawText |-> FALSE,
   processingMethod |-> FALLBACK_MOCK_TAG, reply |-> kind]

\* processImageWithAI, lines 235-263: the detection for what callGeminiAPI
\* returned.
AIDetection(result, kind) ==
  [processed |-> TRUE,
   type |-> IF result.items > 0 THEN "clothing_detected_ai"
            ELSE "no_clothing_detected",
   aiItems |-> result.items, mockItems |-> 0, error |-> FALSE,
   rawText |-> FALSE, processingMethod |-> DETECT_TAG, reply |-> kind]

\* processImageWithAI, lines 290-295: an unknown processing type.
UnknownTypeDetection == [NoDetection EXCEPT !.error = TRUE]

\* An object passed to sendResponse: whether it holds an error field (its own
\* or that of the detection result inside it), the processingMethod of its
\* tryOnData and of its detection data, and whether its message ends with the
\* hint to add photos.
Response(success, type, error, method, detectionMethod, hint) ==
  [success |-> success, type |-> type, error |-> error,
   processingMethod |-> method, detectionMethod |-> detectionMethod,
   hint |-> hint]

ErrorResponse(type) == Response(FALSE, type, TRUE, NO_TAG, NO_TAG, FALSE)

\* handleImageProcessing, lines 178-182: the detection-only answer.
DetectionResponse(hint) ==
  Response(TRUE, detection.type, detection.error, NO_TAG,
           detection.processingMethod, hint)

\* handleImageProcessing, lines 77-82: whether the try-on is attempted.
\* Every detection type holds the text clothing_detected.
shouldTryOn ==
  /\ message.autoTryOn
  /\ detection.type \in {"clothing_detection", "clothing_detected_ai",
                         "clothing_detected_mock", "clothing_detected_fallback",
                         "no_clothing_detected"}
  /\ (detection.aiItems > 0 \/ detection.mockItems > 0)

\* getBestUserPhoto: the id of the photo it returns, "throws" when it finds
\* none. The store is asked first; when it fails, chrome.storage.local.
getBestUserPhoto ==
  IF db /\ userPhotos # {}
    THEN [threw |-> FALSE, id |-> CHOOSE id \in userPhotos : TRUE]
  ELSE IF ~db /\ profile.photos THEN [threw |-> FALSE, id |-> 1]
  ELSE [threw |-> TRUE, id |-> 0]

\* A message has arrived; no run and no update has started.
HandlerInit ==
  /\ geminiIntegration \in BOOLEAN
  /\ apiKey \in BOOLEAN
  /\ hasDocument \in BOOLEAN
  /\ db \in BOOLEAN
  /\ userPhotos \in StoredPhotoSets
  /\ profile \in Profiles
  /\ apiKey => (geminiIntegration /\ profile.apiKey # "none")
  /\ message \in Messages
  /\ recentTryOns \in Histories
  /\ request = [userPhotoId |-> 0, hasClothingItem |-> FALSE, saveResult |-> TRUE]
  /\ pc = "idle"
  /\ RunFresh
  /\ UpdatersIdle
  /\ ElsewhereIdle
  /\ hpc = "received"
  /\ detection = NoDetection
  /\ fetches = [k \in {"Detect", "Refine"} |-> 0]
  /\ refineReply = NoGenerateReply
  /\ responses = <<>>
  /\ heldTryOns = <<>>

\* What no handler step changes.
beyondHandler == <<geminiIntegration, apiKey, hasDocument, db, userPhotos, profile,
                   message, updaters, usageLog, now, elsewhere>>

\* What no handler step but those of handleImageRefinement changes.
platform == <<beyondHandler, heldTryOns>>

\* The variables of a generateTryOn run.
runFields == <<request, pc, stages, finished, calls, userCheck, clothCheck,
               genReply, anaReply, imageResult, tryOnResult, returned, store, usage>>

\* The run and the requests it has sent.
runState == <<runFields, wire>>

\* The listener, lines 19-44: the handler of the action is started; an
\* unknown action is logged and gets no response.
Dispatch ==
  /\ hpc = "received"
  /\ hpc' = CASE message.action = "processImage" -> "detect"
              [] message.action = "generateTryOn" -> "tryOnStart"
              [] message.action = "refineImage" -> "refineStart"
              [] OTHER -> "done"
  /\ UNCHANGED <<platform, runState, recentTryOns, detection, fetches,
                 refineReply, responses>>

\* processImageWithAI, lines 213-233, and callGeminiAPI, lines 331-434: an
\* unknown type and a missing or short key are answered at once; a picture
\* given only as dataUrl, or a url that cannot be fetched, makes callGeminiAPI
\* throw before its request; otherwise the Detect request goes out.
ProcessImageWithAI ==
  /\ hpc = "detect"
  /\ IF message.type # "clothing_detection"
       THEN /\ detection' = UnknownTypeDetection
            /\ hpc' = "decide"
            /\ UNCHANGED fetches
     ELSE IF profile.apiKey # "valid"
       THEN /\ detection' = getFallbackMockResponse
            /\ hpc' = "decide"
            /\ UNCHANGED fetches
     ELSE \E imageOk \in BOOLEAN :
            /\ imageOk => message.image # "dataUrl"
            /\ ~imageOk => message.image # "base64"
            /\ IF imageOk
                 THEN /\ fetches' = [fetches EXCEPT !["Detect"] = @ + 1]
                      /\ hpc' = "detectWait"
                      /\ UNCHANGED detection
                 ELSE /\ detection' = FallbackDetection("none")
                      /\ hpc' = "decide"
                      /\ UNCHANGED fetches
  /\ UNCHANGED <<platform, runState, recentTryOns, refineReply, responses>>

\* callGeminiAPI, lines 424-468, and processImageWithAI, lines 235-288.
DetectReturn ==
  /\ hpc = "detectWait"
  /\ \E reply \in DetectReplies :
       LET aiResult == callGeminiAPI(reply)
       IN detection' = IF aiResult.threw THEN FallbackDetection(reply.kind)
                       ELSE AIDetection(aiResult, reply.kind)
  /\ hpc' = "decide"
  /\ UNCHANGED <<platform, runState, recentTryOns, fetches, refineReply, responses>>

\* handleImageProcessing, lines 73-92 and 178-182: without a try-on the
\* detection result is the answer.
DecideTryOn ==
  /\ hpc = "decide"
  /\ IF shouldTryOn
       THEN hpc' = "getPhoto" /\ UNCHANGED responses
       ELSE hpc' = "done" /\ responses' = Append(responses, DetectionResponse(FALSE))
  /\ UNCHANGED <<platform, runState, recentTryOns, detection, fetches, refineReply>>

\* The run generateTryOn is called with by the handlers: saveResult is true.
TryOnRequest(photoId) ==
  [userPhotoId |-> photoId, hasClothingItem |-> TRUE, saveResult |-> TRUE]

\* handleImageProcessing, lines 95-143: the store is opened, the best photo is
\* looked up and generateTryOn is called for the first item. An exception of
\* any of them is caught (lines 172-175) and the detection result is the
\* answer; a photo that is null would be answered with the hint.
ProcessImageGetPhoto ==
  /\ hpc = "getPhoto"
  /\ message.action = "processImage"
  /\ LET bestPhoto == getBestUserPhoto
     IN IF ~db \/ bestPhoto.threw
          THEN /\ hpc' = "done"
               /\ responses' = Append(responses, DetectionResponse(FALSE))
               /\ UNCHANGED <<request, pc>>
        ELSE IF bestPhoto.id = 0
          THEN /\ hpc' = "done"
               /\ responses' = Append(responses, DetectionResponse(TRUE))
               /\ UNCHANGED <<request, pc>>
        ELSE /\ request' = TryOnRequest(bestPhoto.id)
             /\ pc' = "start"
             /\ hpc' = "tryOnRun"
             /\ UNCHANGED responses
  /\ UNCHANGED <<platform, stages, finished, calls, userCheck, clothCheck, genReply,
                 anaReply, imageResult, tryOnResult, returned, store, usage, wire,
                 recentTryOns, detection, fetches, refineReply>>

\* handleTryOnGeneration, lines 513-541: without items the handler answers
\* with the error; with a photo id it calls generateTryOn, else it looks up
\* the best photo first.
TryOnStart ==
  /\ hpc = "tryOnStart"
  /\ IF message.clothingItems = 0
       THEN /\ hpc' = "done"
            /\ responses' = Append(responses, ErrorResponse("virtual_tryon_error"))
            /\ UNCHANGED <<request, pc>>
     ELSE IF message.userPhotoId # 0
       THEN /\ request' = TryOnRequest(message.userPhotoId)
            /\ pc' = "start"
            /\ hpc' = "tryOnRun"
            /\ UNCHANGED responses
     ELSE /\ hpc' = "getPhoto"
          /\ UNCHANGED <<request, pc, responses>>
  /\ UNCHANGED <<platform, stages, finished, calls, userCheck, clothCheck, genReply,
                 anaReply, imageResult, tryOnResult, returned, store, usage, wire,
                 recentTryOns, detection, fetches, refineReply>>

\* handleTryOnGeneration, lines 524-530 and 572-579.
TryOnGetPhoto ==
  /\ hpc = "getPhoto"
  /\ message.action = "generateTryOn"
  /\ LET bestPhoto == getBestUserPhoto
     IN IF bestPhoto.threw \/ bestPhoto.id = 0
          THEN /\ hpc' = "done"
               /\ responses' = Append(responses, ErrorResponse("virtual_tryon_error"))
               /\ UNCHANGED <<request, pc>>
          ELSE /\ request' = TryOnRequest(bestPhoto.id)
               /\ pc' = "start"
               /\ hpc' = "tryOnRun"
               /\ UNCHANGED responses
  /\ UNCHANGED <<platform, stages, finished, calls, userCheck, clothCheck, genReply,
                 anaReply, imageResult, tryOnResult, returned, store, usage, wire,
                 recentTryOns, detection, fetches, refineReply>>

\* The answer of both handlers to a run that succeeded: tryOnData leaves the
\* generated image out; handleImageProcessing adds the detection result.
TryOnResponse(type) ==
  Response(TRUE, type, detection.error, tryOnResult.processingMethod,
           detection.processingMethod, FALSE)

\* Faulty variant of TryOnReturned: a failed run is logged and not answered.
TryOnReturnedSilent ==
  /\ hpc = "tryOnRun"
  /\ pc = "done"
  /\ hpc' = "done"
  /\ responses' = IF returned = "success"
                    THEN Append(responses,
                                TryOnResponse(IF message.action = "processImage"
                                                THEN "virtual_tryon_complete"
                                                ELSE "virtual_tryon"))
                    ELSE responses
  /\ UNCHANGED <<platform, runState, recentTryOns, detection, fetches, refineReply>>

\* handleImageProcessing, lines 145-182, and handleTryOnGeneration, lines
\* 544-579: generateTryOn has returned.
TryOnReturned ==
  /\ hpc = "tryOnRun"
  /\ pc = "done"
  /\ hpc' = "done"
  /\ responses' = Append(responses,
       IF message.action = "processImage"
         THEN (IF returned = "success" THEN TryOnResponse("virtual_tryon_complete")
               ELSE DetectionResponse(FALSE))
         ELSE (IF returned = "success" THEN TryOnResponse("virtual_tryon")
               ELSE ErrorResponse("virtual_tryon_error")))
  /\ UNCHANGED <<platform, runState, recentTryOns, detection, fetches, refineReply>>

\* The entry of the history the message names, 0 when there is none.
\* handleImageRefinement, line 596: find() gives the first entry of the id.
IndexOf(list, id) ==
  IF \E i \in 1..Len(list) : list[i].id = id
    THEN CHOOSE i \in 1..Len(list) :
           /\ list[i].id = id
           /\ \A j \in 1..(i - 1) : list[j].id # id
    ELSE 0

TargetIndex == IndexOf(recentTryOns, message.tryOnId)

\* Faulty variant of RefineStart: an entry without a generated image is sent
\* to the service all the same.
RefineStartSendsWithoutImage ==
  /\ hpc = "refineStart"
  /\ IF \/ message.tryOnId = 0
        \/ ~message.refinementPrompt
        \/ TargetIndex = 0
        \/ profile.apiKey = "none"
       THEN /\ hpc' = "done"
            /\ responses' = Append(responses, ErrorResponse("none"))
            /\ UNCHANGED <<fetches, wire, heldTryOns>>
       ELSE /\ fetches' = [fetches EXCEPT !["Refine"] = @ + 1]
            /\ wire' = Append(wire, makeApiCall(REFINE, RefineRequestBody, IMAGE_MODEL))
            /\ heldTryOns' = recentTryOns
            /\ hpc' = "refineWait"
            /\ UNCHANGED responses
  /\ UNCHANGED <<beyondHandler, runFields, recentTryOns, detection, refineReply>>

\* handleImageRefinement, lines 587-626: a missing id or prompt, an unknown
\* entry, a missing API key and an entry without a generated image are
\* answered with the error; otherwise the Refine request goes out.
RefineStart ==
  /\ hpc = "refineStart"
  /\ IF \/ message.tryOnId = 0
        \/ ~message.refinementPrompt
        \/ TargetIndex = 0
        \/ profile.apiKey = "none"
        \/ recentTryOns[TargetIndex].generatedImage = "none"
       THEN /\ hpc' = "done"
            /\ responses' = Append(responses, ErrorResponse("none"))
            /\ UNCHANGED <<fetches, wire, heldTryOns>>
       ELSE /\ fetches' = [fetches EXCEPT !["Refine"] = @ + 1]
            /\ wire' = Append(wire, makeApiCall(REFINE, RefineRequestBody, IMAGE_MODEL))
            /\ heldTryOns' = recentTryOns
            /\ hpc' = "refineWait"
            /\ UNCHANGED responses
  /\ UNCHANGED <<beyondHandler, runFields, recentTryOns, detection, refineReply>>

\* refineGeneratedImage, lines 584-600: {success, refinedImage} for the reply
\* of the Refine request; a failed request and an exception of the extraction
\* give {success: false}.
refineGeneratedImage(reply, dom) ==
  IF reply.kind = "error"
    THEN [success |-> FALSE, refinedImage |-> "none", imageUrl |-> <<>>]
  ELSE LET refinedImage == extractGeneratedImage(reply, dom)
       IN IF refinedImage = "throws"
            THEN [success |-> FALSE, refinedImage |-> "none", imageUrl |-> <<>>]
            ELSE [success |-> refinedImage # "none", refinedImage |-> refinedImage,
                  imageUrl |-> DataUrl(refinedImage)]

\* The replies of the service the handlers are checked with: one of each outcome.
HandlerGenerateReplies ==
  {[kind |-> "error", candidates |-> FALSE, parts |-> <<>>, candidateImage |-> FALSE],
   [kind |-> "response", candidates |-> FALSE, parts |-> <<>>, candidateImage |-> FALSE],
   [kind |-> "response", candidates |-> TRUE, parts |-> <<"text">>,
    candidateImage |-> FALSE],
   [kind |-> "response", candidates |-> TRUE, parts |-> <<"image">>,
    candidateImage |-> FALSE]}

\* Faulty variant of RefineReturn: the refinement replaces the earlier ones.
RefineReturnForgetsEarlier ==
  /\ hpc = "refineWait"
  /\ \E reply \in HandlerGenerateReplies, stored \in BOOLEAN :
       LET refinementResult == refineGeneratedImage(reply, hasDocument)
       IN /\ refineReply' = reply
          /\ IF refinementResult.success /\ stored
               THEN /\ recentTryOns' =
                         [heldTryOns EXCEPT ![IndexOf(heldTryOns, message.tryOnId)] =
                            [@ EXCEPT !.generatedImage = refinementResult.refinedImage,
                                      !.imageUrl = refinementResult.imageUrl,
                                      !.refinements =
                                         <<Refinement(REQUEST_PROMPT, now)>>]]
                    /\ responses' = Append(responses,
                                           Response(TRUE, "none", FALSE, NO_TAG, NO_TAG, FALSE))
               ELSE /\ responses' = Append(responses, ErrorResponse("none"))
                    /\ UNCHANGED recentTryOns
  /\ hpc' = "done"
  /\ heldTryOns' = <<>>
  /\ UNCHANGED <<beyondHandler, runState, detection, fetches>>

\* handleImageRefinement, lines 628-671: a refined image replaces the stored
\* one and the refinement is added to the entry; a failure of the refinement
\* or of the storage is answered with the error.
RefineReturn ==
  /\ hpc = "refineWait"
  /\ \E reply \in HandlerGenerateReplies, stored \in BOOLEAN :
       LET refinementResult == refineGeneratedImage(reply, hasDocument)
       IN /\ refineReply' = reply
          /\ IF refinementResult.success /\ stored
               THEN /\ recentTryOns' =
                         [heldTryOns EXCEPT ![IndexOf(heldTryOns, message.tryOnId)] =
                            [@ EXCEPT !.generatedImage = refinementResult.refinedImage,
                                      !.imageUrl = refinementResult.imageUrl,
                                      !.refinements =
                                         Append(@, Refinement(REQUEST_PROMPT, now))]]
                    /\ responses' = Append(responses,
                                           Response(TRUE, "none", FALSE, NO_TAG, NO_TAG, FALSE))
               ELSE /\ responses' = Append(responses, ErrorResponse("none"))
                    /\ UNCHANGED recentTryOns
  /\ hpc' = "done"
  /\ heldTryOns' = <<>>
  /\ UNCHANGED <<beyondHandler, runState, detection, fetches>>

\* The verdicts and replies the runs started by a handler are checked with.
HandlerSafetyChecks ==
  {validateImageSafety(TRUE, reply) :
     reply \in {[kind |-> "error", safe |-> "absent", recommendation |-> "absent"],
                [kind |-> "json", safe |-> "true", recommendation |-> "proceed"],
                [kind |-> "json", safe |-> "false", recommendation |-> "reject"]}}

HandlerAnalyzeReplies ==
  {[kind |-> "error", confidence |-> undefined, recommendations |-> 0],
   [kind |-> "json", confidence |-> GENERATE_DEFAULT_CONFIDENCE, recommendations |-> 1]}

HandlerNext ==
  \/ Dispatch
  \/ ProcessImageWithAI
  \/ DetectReturn
  \/ DecideTryOn
  \/ ProcessImageGetPhoto
  \/ TryOnStart
  \/ TryOnGetPhoto
  \/ TryOnReturned
  \/ RefineStart
  \/ RefineReturn
  \/ ValidateInputs
  \/ PrepareUserPhoto
  \/ PrepareClothingItem
  \/ SafetySubjectCall
  \/ SafetySubjectReturn /\ userCheck' \in HandlerSafetyChecks
  \/ SafetyGarmentCall
  \/ SafetyGarmentReturn /\ clothCheck' \in HandlerSafetyChecks
  \/ UpdateUsage
  \/ GenerateCall
  \/ GenerateReturn /\ genReply' \in HandlerGenerateReplies
  \/ AnalyzeCall
  \/ AnalyzeReturn /\ anaReply' \in HandlerAnalyzeReplies
  \/ CatchFallback
  \/ PostProcess
  \/ Persist
  \/ Return

HandlerSpec == HandlerInit /\ [][HandlerNext]_vars

\* Every step of a handler is a continuation the event loop runs once the
\* awaited promise has settled.
FairHandlerSpec == HandlerSpec /\ WF_vars(HandlerNext)

\* ------------------------------------------------- refinements of a history
\* The refinements an entry can hold before the request.
EarlierRefinements ==
  {<<>>, <<Refinement("first", Epoch)>>,
   <<Refinement("first", Epoch), Refinement("second", Epoch)>>}

\* The stored histories a refineImage request can meet: those of Histories,
\* and two entries with images, ids 1 and 2, in either order, each with
\* earlier refinements.
RefineHistories ==
  Histories \cup
  {<<[HistoryEntry("original") EXCEPT !.id = i, !.refinements = first],
     [HistoryEntry("original") EXCEPT !.id = 3 - i, !.refinements = second]>> :
     i \in {1, 2}, first \in EarlierRefinements, second \in EarlierRefinements}

\* The listener has received a refineImage message.
RefineInit ==
  /\ geminiIntegration \in BOOLEAN
  /\ apiKey \in BOOLEAN
  /\ hasDocument \in BOOLEAN
  /\ db \in BOOLEAN
  /\ userPhotos \in StoredPhotoSets
  /\ profile \in Profiles
  /\ apiKey => (geminiIntegration /\ profile.apiKey # "none")
  /\ message \in {m \in Messages : m.action = "refineImage"}
  /\ recentTryOns \in RefineHistories
  /\ request = [userPhotoId |-> 0, hasClothingItem |-> FALSE, saveResult |-> TRUE]
  /\ pc = "idle"
  /\ RunFresh
  /\ UpdatersIdle
  /\ ElsewhereIdle
  /\ hpc = "received"
  /\ detection = NoDetection
  /\ fetches = [k \in {"Detect", "Refine"} |-> 0]
  /\ refineReply = NoGenerateReply
  /\ responses = <<>>
  /\ heldTryOns = <<>>

RefineNext ==
  \/ Dispatch
  \/ RefineStart
  \/ RefineReturn

RefineSpec == RefineInit /\ [][RefineNext]_vars

\* -------------------------------------------------- the popup's history list
\* addRecentTryOn, line 428: the largest number of entries kept.
HISTORY_CAP == 20

\* Largest number of addRecentTryOn calls of one popup.
MaxAdds == 3

\* The entry with the given id, as the popup adds it (lines 405-412 and
\* 805-812): without an image under result.tryOnData.
PopupEntry(id) == [HistoryEntry("none") EXCEPT !.id = id]

\* The history of n entries, the newest first.
LoadedHistory(n) == [i \in 1..n |-> PopupEntry(n + 1 - i)]

\* Faulty variant of addRecentTryOn: above 20 entries the entry after the
\* new one is dropped.
addRecentTryOnDropsSecond(list, item) ==
  LET unshifted == <<item>> \o list
  IN IF Len(unshifted) > HISTORY_CAP
       THEN <<item>> \o SubSeq(unshifted, 3, Len(unshifted))
       ELSE unshifted

\* addRecentTryOn, lines 425-430: unshift, then slice(0, 20) above 20 entries.
addRecentTryOn(list, item) ==
  LET unshifted == <<item>> \o list
  IN IF Len(unshifted) > HISTORY_CAP THEN SubSeq(unshifted, 1, HISTORY_CAP)
                                      ELSE unshifted

\* loadUserData, lines 32-34: the popup opens with the stored history.
PopupInit ==
  /\ geminiIntegration = TRUE
  /\ apiKey = TRUE
  /\ hasDocument = TRUE
  /\ db = TRUE
  /\ userPhotos = {1}
  /\ request = [userPhotoId |-> 1, hasClothingItem |-> TRUE, saveResult |-> TRUE]
  /\ pc = "idle"
  /\ RunFresh
  /\ UpdatersIdle
  /\ message = NoMessage
  /\ profile = [apiKey |-> "none", photos |-> FALSE]
  /\ hpc = "idle"
  /\ detection = NoDetection
  /\ fetches = [k \in {"Detect", "Refine"} |-> 0]
  /\ refineReply = NoGenerateReply
  /\ responses = <<>>
  /\ heldTryOns = <<>>
  /\ \E n \in 0..HISTORY_CAP : recentTryOns = LoadedHistory(n)
  /\ popupTryOns = recentTryOns
  /\ added = 0
  /\ ProcessorIdle
  /\ ContentIdle

\* addRecentTryOn, lines 424-438: the item goes to the front of the popup's
\* list, the list is cut to 20 entries and written to chrome.storage.local.
AddRecentTryOn ==
  /\ added < MaxAdds
  /\ added' = added + 1
  /\ popupTryOns' = addRecentTryOn(popupTryOns, PopupEntry(HISTORY_CAP + added + 1))
  /\ \E ok \in BOOLEAN :
       recentTryOns' = IF ok THEN popupTryOns' ELSE recentTryOns
  /\ UNCHANGED <<geminiIntegration, apiKey, hasDocument, db, userPhotos, runState,
                 updaters, usageLog, now, message, profile, hpc, detection,
                 fetches, refineReply, responses, heldTryOns, processorState,
                 contentScript>>

\* loadUserData, lines 30-34: the popup is opened again and reads the
\* stored history.
LoadUserData ==
  /\ popupTryOns # recentTryOns
  /\ popupTryOns' = recentTryOns
  /\ UNCHANGED <<geminiIntegration, apiKey, hasDocument, db, userPhotos, runState,
                 updaters, usageLog, now, handlerState, added, processorState,
                 contentScript>>

PopupNext ==
  \/ AddRecentTryOn
  \/ LoadUserData

PopupSpec == PopupInit /\ [][PopupNext]_vars

\* ----------------------------------------- the popup and the refine handler
\* refineImage messages the popup sends in one session.
MaxRequests == 2

\* The stored histories a session starts with: those of Histories, and two
\* entries with images, ids 1 and 2.
SessionHistories ==
  Histories \cup
  {<<HistoryEntry("original"), [HistoryEntry("original") EXCEPT !.id = 2]>>}

\* loadUserData, lines 32-34: the popup is open with the stored history and
\* the background listener waits for a message.
SessionInit ==
  /\ geminiIntegration = TRUE
  /\ apiKey = TRUE
  /\ hasDocument \in BOOLEAN
  /\ db = TRUE
  /\ userPhotos = {1}
  /\ request = [userPhotoId |-> 1, hasClothingItem |-> TRUE, saveResult |-> TRUE]
  /\ pc = "idle"
  /\ RunFresh
  /\ UpdatersIdle
  /\ message = NoMessage
  /\ profile \in {q \in Profiles : q.photos}
  /\ hpc = "idle"
  /\ detection = NoDetection
  /\ fetches = [k \in {"Detect", "Refine"} |-> 0]
  /\ refineReply = NoGenerateReply
  /\ responses = <<>>
  /\ heldTryOns = <<>>
  /\ recentTryOns \in SessionHistories
  /\ popupTryOns = recentTryOns
  /\ added = 0
  /\ ProcessorIdle
  /\ ContentIdle

\* refineImage, popup.js lines 828-840: the prompt was answered and the
\* message names an entry of the popup's history; the listener receives it
\* once the message before it is answered.
RefineImage ==
  /\ hpc \in {"idle", "done"}
  /\ Len(responses) < MaxRequests
  /\ \E i \in 1..Len(popupTryOns) :
       message' = [NoMessage EXCEPT !.action = "refineImage",
                                    !.tryOnId = popupTryOns[i].id,
                                    !.refinementPrompt = TRUE]
  /\ hpc' = "received"
  /\ UNCHANGED <<geminiIntegration, apiKey, hasDocument, db, userPhotos, runState,
                 updaters, usageLog, now, profile, recentTryOns, detection,
                 fetches, refineReply, responses, heldTryOns, elsewhere>>

SessionNext ==
  \/ AddRecentTryOn
  \/ LoadUserData
  \/ RefineImage
  \/ Dispatch
  \/ RefineStart
  \/ RefineReturn

SessionSpec == SessionInit /\ [][SessionNext]_vars

\* --------------------------------------------------- the content script
\* Calls of enterSelectionMode, clicks on an image and screenshots taken on
\* one page.
MaxEntries == 2
MaxClicks == 2
MaxShots == 1

\* Nothing but the content script of one page is at work. Its state:
\* isSelectionMode; listeners, the click listeners on the images of the page,
\* each the function one bind() call made; binds, the bind() calls so far;
\* extracting and awaiting, the processImageElement calls waiting for the
\* image data and for the response; sent, the processImage messages sent.
ContentInit ==
  /\ geminiIntegration = TRUE
  /\ apiKey = TRUE
  /\ hasDocument = TRUE
  /\ db = TRUE
  /\ userPhotos = {1}
  /\ request = [userPhotoId |-> 1, hasClothingItem |-> TRUE, saveResult |-> TRUE]
  /\ pc = "idle"
  /\ RunFresh
  /\ UpdatersIdle
  /\ HandlerIdle
  /\ PopupIdle
  /\ ProcessorIdle
  /\ ContentIdle

\* What no step of the content script changes.
beyondContent ==
  <<geminiIntegration, apiKey, hasDocument, db, userPhotos, runState, updaters,
    usageLog, now, handlerState, popupState, processorState>>

\* addImageClickListeners, lines 112-118: every image gets the function
\* `this.handleImageClick.bind(this)` makes, a new one at each call.
addImageClickListeners(c) ==
  [c EXCEPT !.binds = @ + 1, !.listeners = @ \cup {c.binds + 1}]

\* removeImageClickListeners, lines 121-127: the function bind() makes now is
\* taken off every image; the listener API removes the function it is given.
removeImageClickListeners(c) ==
  [c EXCEPT !.binds = @ + 1, !.listeners = @ \ {c.binds + 1}]

\* enterSelectionMode, lines 92-99.
enterSelectionMode(c) ==
  addImageClickListeners([c EXCEPT !.isSelectionMode = TRUE])

\* exitSelectionMode, lines 102-109.
exitSelectionMode(c) ==
  removeImageClickListeners([c EXCEPT !.isSelectionMode = FALSE])

\* The processImage message of processImageElement (lines 152-159) and of
\* captureScreenshot (lines 234-241): the image data holds a dataUrl, and
\* neither url nor base64.
ProcessImageMessage(source) ==
  [source |-> source,
   message |-> [NoMessage EXCEPT !.action = "processImage",
                                 !.type = "clothing_detection",
                                 !.autoTryOn = TRUE,
                                 !.image = "dataUrl"]]

\* The startSelection message (lines 53-56) or Ctrl+Shift+T (lines 82-87).
EnterSelectionMode ==
  /\ contentScript.entered < MaxEntries
  /\ contentScript' = [enterSelectionMode(contentScript) EXCEPT !.entered = @ + 1]
  /\ UNCHANGED beyondContent

\* The ESC key (lines 77-79) or the cancel button (lines 45-47).
ExitSelectionMode ==
  /\ contentScript.isSelectionMode
  /\ contentScript' = exitSelectionMode(contentScript)
  /\ UNCHANGED beyondContent

\* A click on an image: every listener of the image runs handleImageClick
\* (lines 130-144), which returns outside selection mode and otherwise calls
\* processImageElement, which waits for extractImageData.
ImageClick ==
  /\ contentScript.clicks < MaxClicks
  /\ contentScript' =
       [contentScript EXCEPT
          !.clicks = @ + 1,
          !.activeClicks = IF contentScript.isSelectionMode THEN @ + 1 ELSE @,
          !.extracting = IF contentScript.isSelectionMode
                           THEN @ + Cardinality(contentScript.listeners) ELSE @]
  /\ UNCHANGED beyondContent

\* processImageElement, lines 147-159 and 166-171: the image data is there
\* and the message is sent, or the image failed to load, the error is shown
\* and selection mode is left.
ProcessImageElement ==
  /\ contentScript.extracting > 0
  /\ \E loaded \in BOOLEAN :
       contentScript' =
         IF loaded
           THEN [contentScript EXCEPT !.extracting = @ - 1, !.awaiting = @ + 1,
                                !.sent = Append(@, ProcessImageMessage("element_selection"))]
           ELSE exitSelectionMode([contentScript EXCEPT !.extracting = @ - 1,
                                                  !.failed = @ + 1])
  /\ UNCHANGED beyondContent

\* captureScreenshot, lines 227-249: with a screenshot the processImage
\* message is sent; without one the error is shown and selection mode is left.
CaptureScreenshot ==
  /\ contentScript.shots < MaxShots
  /\ \E captured \in BOOLEAN :
       contentScript' =
         IF captured
           THEN [contentScript EXCEPT !.shots = @ + 1, !.awaiting = @ + 1,
                                !.sent = Append(@, ProcessImageMessage("screenshot"))]
           ELSE exitSelectionMode([contentScript EXCEPT !.shots = @ + 1])
  /\ UNCHANGED beyondContent

\* processImageElement, lines 161-173, and captureScreenshot, lines 243-258:
\* the response is shown and selection mode is left.
ProcessImageAnswered ==
  /\ contentScript.awaiting > 0
  /\ contentScript' = exitSelectionMode([contentScript EXCEPT !.awaiting = @ - 1])
  /\ UNCHANGED beyondContent

ContentNext ==
  \/ EnterSelectionMode
  \/ ExitSelectionMode
  \/ ImageClick
  \/ ProcessImageElement
  \/ CaptureScreenshot
  \/ ProcessImageAnswered

ContentSpec == ContentInit /\ [][ContentNext]_vars

\* ------------------------------------------------- ImageProcessor: resizing
\* Largest width, height and bound of the sizes resized.
MaxSide == 5

\* Nothing but the image processor is at work.
OnlyProcessor ==
  /\ geminiIntegration = TRUE
  /\ apiKey = TRUE
  /\ hasDocument = TRUE
  /\ db = TRUE
  /\ userPhotos = {1}
  /\ request = [userPhotoId |-> 1, hasClothingItem |-> TRUE, saveResult |-> TRUE]
  /\ pc = "idle"
  /\ RunFresh
  /\ UpdatersIdle
  /\ HandlerIdle
  /\ PopupIdle
  /\ ContentIdle

\* What no ImageProcessor call changes.
beyondProcessor ==
  <<geminiIntegration, apiKey, hasDocument, db, userPhotos, runState, updaters,
    usageLog, now, handlerState, popupState, contentScript>>

\* Math.round of the fraction n/d (d > 0, n >= 0): halves go up.
MathRound(n, d) == (2 * n + d) \div (2 * d)

\* Faulty variant of calculateDimensions: a height above the bound is cut to
\* the bound without the width being scaled with it.
calculateDimensionsCutsHeight(originalWidth, originalHeight, maxWidth, maxHeight) ==
  LET first == originalWidth > maxWidth
      w1 == IF first THEN maxWidth ELSE originalWidth
      hn == IF first THEN originalHeight * maxWidth ELSE originalHeight
      hd == IF first THEN originalWidth ELSE 1
      second == hn > maxHeight * hd
  IN [width |-> w1,
      height |-> IF second THEN maxHeight ELSE MathRound(hn, hd)]

\* calculateDimensions, lines 465-481. The height after the first step is
\* the fraction hn/hd, the width after the second the fraction wn/wd.
calculateDimensions(originalWidth, originalHeight, maxWidth, maxHeight) ==
  LET first == originalWidth > maxWidth
      w1 == IF first THEN maxWidth ELSE originalWidth
      hn == IF first THEN originalHeight * maxWidth ELSE originalHeight
      hd == IF first THEN originalWidth ELSE 1
      second == hn > maxHeight * hd
      wn == IF second THEN w1 * maxHeight * hd ELSE w1
      wd == IF second THEN hn ELSE 1
  IN [width |-> MathRound(wn, wd),
      height |-> IF second THEN maxHeight ELSE MathRound(hn, hd)]

\* calculateOptimalDimensions, lines 592-609: maxDimension / (width / height)
\* is maxDimension * height / width.
calculateOptimalDimensions(width, height, maxDimension) ==
  IF width <= maxDimension /\ height <= maxDimension
    THEN [width |-> width, height |-> height]
  ELSE IF width > height
    THEN [width |-> maxDimension, height |-> MathRound(maxDimension * height, width)]
    ELSE [width |-> MathRound(maxDimension * width, height), height |-> maxDimension]

\* An image has loaded and is about to be resized (resizeImage, line 429) or
\* enhanced (enhanceImage, line 532).
ResizeInit ==
  /\ OnlyProcessor
  /\ procArgs \in [fn : {"calculateDimensions"}, width : 0..MaxSide,
                    height : 0..MaxSide, maxWidth : 0..MaxSide,
                    maxHeight : 0..MaxSide]
                  \cup {[fn |-> "calculateOptimalDimensions", width |-> w,
                          height |-> h, maxWidth |-> m, maxHeight |-> m] :
                         w \in 0..MaxSide, h \in 0..MaxSide, m \in 0..MaxSide}
  /\ procResult = NoCall

CalculateDimensions ==
  /\ procArgs.fn = "calculateDimensions"
  /\ procResult = NoCall
  /\ procResult' = [fn |-> procArgs.fn,
                     size |-> calculateDimensions(procArgs.width, procArgs.height,
                                                  procArgs.maxWidth, procArgs.maxHeight)]
  /\ UNCHANGED <<beyondProcessor, procArgs>>

CalculateOptimalDimensions ==
  /\ procArgs.fn = "calculateOptimalDimensions"
  /\ procResult = NoCall
  /\ procResult' = [fn |-> procArgs.fn,
                     size |-> calculateOptimalDimensions(procArgs.width, procArgs.height,
                                                         procArgs.maxWidth)]
  /\ UNCHANGED <<beyondProcessor, procArgs>>

ResizeNext ==
  \/ CalculateDimensions
  \/ CalculateOptimalDimensions

ResizeSpec == ResizeInit /\ [][ResizeNext]_vars

\* ---------------------------------------------- ImageProcessor: convolution
\* Largest width and height of the pixel data convolved.
MaxDim == 4

\* Uint8ClampedArray values.
BYTE_MAX == 255
BYTE_RANGE == 256

\* The kernels of applyAIOptimizedSharpen (lines 636-640) and
\* applySmartDenoise (lines 656-660), each weight as a fraction of one
\* divisor, and the kernel that leaves a picture as it is.
Kernels ==
  {[weights |-> <<-1, -2, -1, -2, 12, -2, -1, -2, -1>>, divisor |-> 2],
   [weights |-> <<1, 2, 1, 2, 4, 2, 1, 2, 1>>, divisor |-> 16],
   [weights |-> <<0, 0, 0, 0, 1, 0, 0, 0, 0>>, divisor |-> 1]}

\* The pixel data getImageData returns for a canvas of the given size: four
\* bytes a pixel, row by row. The bytes are drawn from an uneven sequence with
\* the given start and step, so that neighbours differ by small and by large
\* amounts.
ImageSeeds == {<<0, 0>>, <<200, 0>>, <<3, 7>>, <<11, 37>>, <<255, 101>>}
PixelData(width, height, seed) ==
  [i \in 1..(width * height * 4) |->
     (seed[1] + seed[2] * ((i * i) \div 7)) % BYTE_RANGE]

\* The value a Uint8ClampedArray element takes when the fraction n/d (d > 0)
\* is stored in it: clamped to 0..255 and rounded to the nearest whole
\* number, a half to the even one.
ToUint8Clamp(n, d) ==
  IF n <= 0 THEN 0
  ELSE IF n >= BYTE_MAX * d THEN BYTE_MAX
  ELSE LET floor == n \div d
           rest == n % d
       IN IF 2 * rest < d THEN floor
          ELSE IF 2 * rest > d THEN floor + 1
          ELSE IF floor % 2 = 0 THEN floor ELSE floor + 1

\* applyConvolution, lines 713-721: the sum over ky, kx in -1..1 of
\* data[idx] * kernel[kernelIdx], in units of the kernel's divisor.
KernelSum(data, width, x, y, c, weights) ==
  LET term(k) ==
        LET ky == ((k - 1) \div 3) - 1
            kx == ((k - 1) % 3) - 1
            idx == ((y + ky) * width + (x + kx)) * 4 + c
        IN data[idx + 1] * weights[k]
  IN term(1) + term(2) + term(3) + term(4) + term(5) + term(6) + term(7)
       + term(8) + term(9)

\* The pixel x, y is not on the border of the picture.
Interior(x, y, width, height) ==
  1 <= x /\ x < width - 1 /\ 1 <= y /\ y < height - 1

\* Faulty variant of applyConvolution: the alpha channel is convolved too.
applyConvolutionWithAlpha(data, width, height, kernel) ==
  [i \in 1..Len(data) |->
     LET c == (i - 1) % 4
         x == ((i - 1) \div 4) % width
         y == ((i - 1) \div 4) \div width
     IN IF Interior(x, y, width, height)
          THEN ToUint8Clamp(KernelSum(data, width, x, y, c, kernel.weights),
                            kernel.divisor)
          ELSE data[i]]

\* applyConvolution, lines 705-728: the data after data.set(output). output
\* starts as a copy of data; for the channels 0..2 of every interior pixel
\* the clamped sum computed from data is stored in it.
applyConvolution(data, width, height, kernel) ==
  [i \in 1..Len(data) |->
     LET c == (i - 1) % 4
         x == ((i - 1) \div 4) % width
         y == ((i - 1) \div 4) \div width
     IN IF c < 3 /\ Interior(x, y, width, height)
          THEN ToUint8Clamp(KernelSum(data, width, x, y, c, kernel.weights),
                            kernel.divisor)
          ELSE data[i]]

\* A filter has read the pixels of the canvas (lines 632-633, 652-653).
ConvolutionInit ==
  /\ OnlyProcessor
  /\ \E width \in 1..MaxDim, height \in 1..MaxDim, seed \in ImageSeeds,
        kernel \in Kernels :
       procArgs = [fn |-> "applyConvolution", data |-> PixelData(width, height, seed),
                   width |-> width, height |-> height, kernel |-> kernel]
  /\ procResult = NoCall

ApplyConvolution ==
  /\ procArgs.fn = "applyConvolution"
  /\ procResult = NoCall
  /\ procResult' = [fn |-> procArgs.fn,
                     data |-> applyConvolution(procArgs.data, procArgs.width,
                                               procArgs.height, procArgs.kernel)]
  /\ UNCHANGED <<beyondProcessor, procArgs>>

ConvolutionNext == ApplyConvolution

ConvolutionSpec == ConvolutionInit /\ [][ConvolutionNext]_vars

\* ------------------------------------------- ImageProcessor: dominant colours
\* Largest number of pixels analyzeColors samples, and largest colorCount.
MaxSamples == 4

\* analyzeColors, line 800: the step of the sampling loop, in bytes, and
\* line 806: the alpha a pixel has to exceed to be counted.
SAMPLE_STEP == 16
ALPHA_THRESHOLD == 128

\* The colours and alpha values of the sampled pixels, and the pixel the
\* loop steps over.
Palette == {<<255, 0, 0>>, <<0, 255, 0>>}
Alphas == {0, 128, 255}
FILLER == <<9, 9, 9, 255>>

\* The pixel data of getImageData, four bytes a pixel, whose every fourth
\* pixel is the next of the given pixels <<colour, alpha>>.
SampledData(pixels) ==
  [i \in 1..(SAMPLE_STEP * Len(pixels)) |->
     LET p == (i - 1) \div 4
         c == (i - 1) % 4
     IN IF p % 4 # 0 THEN FILLER[c + 1]
        ELSE IF c < 3 THEN pixels[(p \div 4) + 1][1][c + 1]
        ELSE pixels[(p \div 4) + 1][2]]

\* colorMap.set(color, (colorMap.get(color) || 0) + 1): the entries of the
\* Map, in the order of their insertion, after one more pixel of the colour.
MapIncrement(entries, color) ==
  IF \E k \in 1..Len(entries) : entries[k].color = color
    THEN [k \in 1..Len(entries) |->
            IF entries[k].color = color
              THEN [entries[k] EXCEPT !.count = @ + 1] ELSE entries[k]]
    ELSE Append(entries, [color |-> color, count |-> 1])

\* Faulty variant of CountColors: every sampled pixel is counted.
RECURSIVE CountColorsAnyAlpha(_, _, _)
CountColorsAnyAlpha(data, i, entries) ==
  IF i >= Len(data) THEN entries
  ELSE CountColorsAnyAlpha(data, i + SAMPLE_STEP,
                           MapIncrement(entries, <<data[i + 1], data[i + 2], data[i + 3]>>))

\* analyzeColors, lines 799-811: the loop from byte i (counted from 0) on.
RECURSIVE CountColors(_, _, _)
CountColors(data, i, entries) ==
  IF i >= Len(data) THEN entries
  ELSE LET color == <<data[i + 1], data[i + 2], data[i + 3]>>
           a == data[i + 4]
       IN CountColors(data, i + SAMPLE_STEP,
                      IF a > ALPHA_THRESHOLD THEN MapIncrement(entries, color)
                                             ELSE entries)

\* Array.prototype.sort with (a, b) => b[1] - a[1]: the entry is put behind
\* the sorted entries that are to stay before it (the sort is stable).
InsertByCount(sorted, entry) ==
  LET before == Cardinality({k \in 1..Len(sorted) : sorted[k].count >= entry.count})
  IN SubSeq(sorted, 1, before) \o <<entry>> \o SubSeq(sorted, before + 1, Len(sorted))

RECURSIVE SortByCount(_, _)
SortByCount(entries, n) ==
  IF n = 0 THEN <<>> ELSE InsertByCount(SortByCount(entries, n - 1), entries[n])

\* analyzeColors, lines 795-816.
analyzeColors(data, colorCount) ==
  LET colorMap == CountColors(data, 0, <<>>)
      sorted == SortByCount(colorMap, Len(colorMap))
  IN SubSeq(sorted, 1, Min(colorCount, Len(sorted)))

\* extractColors, lines 779-780: the pixels of the canvas have been read.
ColorsInit ==
  /\ OnlyProcessor
  /\ \E n \in 1..MaxSamples, colorCount \in 0..MaxSamples :
       \E pixels \in [1..n -> Palette \X Alphas] :
         procArgs = [fn |-> "analyzeColors", data |-> SampledData(pixels),
                     colorCount |-> colorCount]
  /\ procResult = NoCall

AnalyzeColors ==
  /\ procArgs.fn = "analyzeColors"
  /\ procResult = NoCall
  /\ procResult' = [fn |-> procArgs.fn,
                     colors |-> analyzeColors(procArgs.data, procArgs.colorCount)]
  /\ UNCHANGED <<beyondProcessor, procArgs>>

ColorsNext == AnalyzeColors

ColorsSpec == ColorsInit /\ [][ColorsNext]_vars

\* ========================================================== properties

\* The run has handed a TryOnResult to its caller.
Delivered == returned = "success"

\* C1: if the Safety call on the subject photo or on the garment photo returns
\* recommendation reject, no Generate request is issued in that run.
C1_RejectBlocksGenerate ==
  (userCheck.recommendation = "reject" \/ clothCheck.recommendation = "reject")
    => calls[GENERATE] = 0

\* C2: if the Safety call on the garment photo returns recommendation reject,
\* the run ends without persisting any TryOnResult.
C2_GarmentRejectNotPersisted ==
  (clothCheck.recommendation = "reject" /\ pc = "done") => Len(store) = 0

\* The order of the stages as section 4.3 of the specification gives it, and
\* as generateTryOn and performAITryOn run them.
SpecOrder ==
  <<VALIDATE, SAFETY_SUBJECT, SAFETY_GARMENT, PREPARE_SUBJECT, PREPARE_GARMENT,
    GENERATE, ANALYZE, POSTPROCESS, PERSIST>>
CodeOrder ==
  <<VALIDATE, PREPARE_SUBJECT, PREPARE_GARMENT, SAFETY_SUBJECT, SAFETY_GARMENT,
    GENERATE, ANALYZE, POSTPROCESS, PERSIST>>

Rank(order, stage) == CHOOSE i \in DOMAIN order : order[i] = stage

\* Every stage entered before the latest one has finished.
EarlierStagesFinished == \A i \in 1..(Len(stages) - 1) : stages[i] \in finished

C4_NetworkErrorFallsBack ==
  (genReply.kind = "error" /\ pc = "done")
    => /\ Delivered
       /\ tryOnResult.exists
       /\ tryOnResult.processingMethod = MOCK_TAG

C4_NetworkErrorRun ==
  genReply.kind = "error" /\ pc = "done" /\ Delivered
    /\ tryOnResult.processingMethod = MOCK_TAG

NoRecognisedImage(reply) ==
  /\ reply.kind = "response"
  /\ \A i \in DOMAIN reply.parts : reply.parts[i] \notin {"image", "text-data-uri"}
  /\ ~reply.candidateImage

\* C6: if the Generate response holds no image in any recognised shape, the run
\* returns a TryOnResult whose generatedImage is the locally drawn placeholder.
C6_NoImageGivesPlaceholder ==
  /\ (NoRecognisedImage(genReply) /\ pc = "done") => Delivered
  /\ (NoRecognisedImage(genReply) /\ Delivered)
       => /\ tryOnResult.generatedImage = "placeholder"
          /\ tryOnResult.generatedImage # "none"

C6_NoImageRun == NoRecognisedImage(genReply) /\ Delivered

\* C7: a result whose image is the locally drawn placeholder is tagged as
\* non-AI-generated content.
C7_PlaceholderTaggedNonAI ==
  (Delivered /\ tryOnResult.generatedImage = "placeholder")
    => ~tryOnResult.isAIGenerated

\* C8: every TryOnResult the run returns, from the service or synthetic,
\* carries a watermark.
C8_WatermarkAlways == Delivered => (tryOnResult.exists /\ tryOnResult.watermark)

C8_FallbackDelivered ==
  Delivered /\ tryOnResult.processingMethod = MOCK_TAG /\ tryOnResult.watermark

\* C9: the confidence of every returned TryOnResult lies in [0,1].
C9_ConfidenceInUnitInterval ==
  Delivered => (0 <= tryOnResult.confidence /\ tryOnResult.confidence <= ONE)

\* The score section 4.3 of the specification gives for an external-AI result.
SpecQualityScore(result) ==
  Clamp01(BASE_SCORE + (result.confidence * CONFIDENCE_WEIGHT) \div ONE + METHOD_BONUS
          + Min(REC_CAP, REC_STEP * result.recommendations))

\* C10: when Generate returns a valid image part, the result is tagged
\* external-AI and its qualityScore is
\* clamp(0.5 + 0.3*confidence + 0.2 + min(0.15, 0.05*recommendations), 0, 1);
\* with confidence 0.9 that is at least 0.97.
C10_ExternalAIBonusApplied ==
  (Delivered /\ imageResult.generatedImage = "inline_data")
    => /\ tryOnResult.processingMethod = GEMINI_TAG
       /\ tryOnResult.qualityScore = SpecQualityScore(tryOnResult)
       /\ (tryOnResult.confidence = 900 => tryOnResult.qualityScore >= 970)

\* C16 (as stated): every run that hands over a TryOnResult, genuine or
\* fallback, has written it to the store exactly once.
C16_PersistedExactlyOnce == Delivered => Len(store) = 1

\* C16 (amended): a run that hands over a TryOnResult has written it at most
\* once; it has written it exactly when saving was not switched off and the
\* store accepted the record, and the record is the one of the result.
C16_PersistedAtMostOnce ==
  Delivered =>
    /\ Len(store) <= 1
    /\ (Len(store) = 1) = tryOnResult.savedId
    /\ ~request.saveResult => Len(store) = 0
    /\ Len(store) = 1 =>
         store[1] = ResultRecord([tryOnResult EXCEPT !.savedId = FALSE])

C16_PersistedRun == Delivered /\ Len(store) = 1 /\ tryOnResult.savedId

\* The Persist stage ran and the store refused the record.
PersistFailed == PERSIST \in finished /\ ~tryOnResult.savedId

\* C17 (as stated): when Persist fails, the result is not delivered.
C17_PersistFailureNotDelivered == PersistFailed => ~Delivered

\* C17 (amended): when Persist fails the stored records are left as they
\* were, and the run still goes on to hand over the in-memory result.
C17_PersistFailureKeepsStore ==
  /\ [][(pc = "persist" /\ ~tryOnResult'.savedId)
          => (store' = store /\ pc' = "return" /\ returned' = returned)]_vars
  /\ [](PersistFailed => (store = <<>> /\ (pc = "done" => Delivered)))

C17_PersistFailedRun == PersistFailed /\ Delivered /\ store = <<>>

\* C18: each external stage (Safety subject, Safety garment, Generate, Analyze)
\* issues at most one network request in a run; a failed request is not sent
\* again, the fallback is taken instead.
C18_OneRequestPerStage ==
  /\ \A s \in NetStages : calls[s] <= 1
  /\ (genReply.kind = "error" /\ pc = "done")
       => (calls[GENERATE] = 1 /\ tryOnResult.processingMethod = MOCK_TAG)

C18_FailedRequestRun ==
  /\ genReply.kind = "error"
  /\ Delivered
  /\ calls[SAFETY_SUBJECT] = 1 /\ calls[SAFETY_GARMENT] = 1 /\ calls[GENERATE] = 1

\* C20: nothing serialises the read-modify-write of the usage counters: a
\* write stores the counters its own earlier read returned plus one, whatever
\* other runs stored in between, so the stored totalRequests never exceeds
\* the number of updates performed and can end up smaller (a lost update).
C20_WriteUsesStaleRead ==
  /\ [](usage.totalRequests <= usageLog.updates)
  /\ [][\A p \in Runs :
          (updaters[p].pc = "read" /\ updaters'[p].pc = "idle" /\ usage' # usage)
            => usage'.totalRequests = updaters[p].stats.totalRequests + 1]_vars

\* Two runs have each completed one update, no storage access failed, and
\* the stored total is one.
C20_LostUpdate ==
  /\ updaters[1].done = 1 /\ updaters[1].pc = "idle"
  /\ updaters[2].done = 1 /\ updaters[2].pc = "idle"
  /\ usageLog = [updates |-> 2, failed |-> 0]
  /\ usage.totalRequests = 1

\* The handler has finished with a message of one of the three kinds.
Handled ==
  hpc = "done" /\ message.action \in {"processImage", "generateTryOn", "refineImage"}

\* A garment item a Detect call returned, or one the caller supplied.
ItemAvailable ==
  \/ message.action = "generateTryOn" /\ message.clothingItems > 0
  \/ message.action = "processImage" /\ detection.aiItems > 0

\* C11: a Generate request is sent only when a garment item is available
\* (returned by a Detect call or supplied by the caller) and the user has a
\* registered subject photo.
C11_GenerateNeedsItemAndPhoto ==
  calls[GENERATE] > 0 => (ItemAvailable /\ userPhotos # {})

\* C12: when processImage detects a garment and no subject photo is
\* registered, the response is the detection-only result and its message
\* holds the hint to add a photo.
C12_NoPhotoGivesHint ==
  (/\ Handled
   /\ message.action = "processImage"
   /\ message.autoTryOn
   /\ detection.aiItems > 0
   /\ db /\ userPhotos = {} /\ ~profile.photos)
    => /\ Len(responses) = 1
       /\ responses[1].success
       /\ responses[1].type = detection.type
       /\ responses[1].hint

\* C13: when the Refine request fails or its response holds no image, the
\* refine request is answered with an error and the placeholder does not
\* replace the stored generated image.
C13_RefineFailureIsError ==
  (/\ Handled
   /\ fetches["Refine"] = 1
   /\ (refineReply.kind = "error" \/ NoRecognisedImage(refineReply)))
    => /\ Len(responses) = 1
       /\ ~responses[1].success
       /\ responses[1].error
       /\ \A i \in 1..Len(recentTryOns) :
            recentTryOns[i].generatedImage # "placeholder"

\* No request has gone to the network.
NoNetworkCall ==
  /\ \A k \in DOMAIN fetches : fetches[k] = 0
  /\ \A s \in NetStages : calls[s] = 0

\* C14: without an API key a detection or try-on request is answered with a
\* configuration error and no network call is made.
C14_NoKeySurfacesError ==
  (/\ Handled
   /\ message.action \in {"processImage", "generateTryOn"}
   /\ profile.apiKey = "none")
    => /\ Len(responses) = 1
       /\ responses[1].error
       /\ NoNetworkCall

\* C15: when the text of a Detect response cannot be decoded as JSON, the
\* detection succeeds with an empty item list and the raw text in its
\* metadata: it neither fails nor reports a garment item.
C15_UndecodableDetectDegrades ==
  detection.reply \in {"nojson", "badjson"}
    => /\ detection.processed
       /\ ~detection.error
       /\ detection.aiItems = 0 /\ detection.mockItems = 0
       /\ detection.rawText
       /\ LET parsed == parseClothingDetectionResponse(
                          [kind |-> detection.reply, items |-> 0])
          IN parsed.success /\ parsed.items = 0 /\ parsed.rawText

\* A processingMethod that marks a result as degraded.
Degraded(method) == method \in {MOCK_TAG, FALLBACK_MOCK_TAG, NO_KEY_TAG}

\* The response holds an error field or a degraded processingMethod.
Marked ==
  \/ responses[1].error
  \/ Degraded(responses[1].processingMethod)
  \/ Degraded(responses[1].detectionMethod)

\* Failure paths: the handler failed, the detection was skipped or failed,
\* the run fell back to the synthetic result, the try-on of a processImage
\* request was wanted and did not come about.
HandlerFailed == ~responses[1].success
DetectDegraded == detection.error \/ detection.mockItems > 0
RunFellBack == returned = "success" /\ tryOnResult.processingMethod = MOCK_TAG
TryOnFailed ==
  message.action = "processImage" /\ shouldTryOn /\ returned # "success"

\* C19 (as stated): every processImage, generateTryOn or refineImage request
\* is answered by exactly one response, and on every failure path the response
\* holds an error field or a degraded processingMethod.
C19_FailureCarriesMarker ==
  Handled =>
    /\ Len(responses) = 1
    /\ (HandlerFailed \/ DetectDegraded \/ RunFellBack \/ TryOnFailed) => Marked

\* C19 (amended): every such request is eventually answered, by exactly one
\* response; the response holds an error field or a degraded processingMethod
\* when the handler failed, the detection was skipped or failed, or the run
\* fell back; a processImage request whose detection succeeded and whose
\* try-on did not come about is answered with the unmarked detection result.
C19_AnsweredOnce ==
  /\ <>(hpc = "done")
  /\ [](Len(responses) <= 1)
  /\ [](Handled =>
          /\ Len(responses) = 1
          /\ (HandlerFailed \/ DetectDegraded \/ RunFellBack) => Marked
          /\ (TryOnFailed /\ ~DetectDegraded)
               => (responses[1].success /\ ~Marked))

C19_FallbackAnswered ==
  Handled /\ Len(responses) = 1 /\ RunFellBack /\ Marked

\* ------------------------------------------------------------------- C21
\* The update of run p has just written the counters it computed.
UsageWritten(p) ==
  updaters[p].pc = "read" /\ updaters'[p].pc = "idle" /\ usage' # usage

SameDay(a, b) == a # NoDate /\ a = b
SameMonth(a, b) == a # NoDate /\ a[1] = b[1] /\ a[2] = b[2]

RefineSucceeded ==
  /\ hpc = "refineWait" /\ hpc' = "done"
  /\ responses'[Len(responses')].success

\* C22: a refine answered with success leaves, in the stored history, the
\* entry it names with the refined image as generated image, the data URL of
\* that image as image URL and the earlier refinements followed by one
\* {prompt, timestamp} entry of the request; the other entries, and the
\* order of the history, stay as they were.
C22_RefineAppendsOneRefinement ==
  [][RefineSucceeded =>
       LET old == recentTryOns[TargetIndex]
           new == recentTryOns'[TargetIndex]
       IN /\ old.id = message.tryOnId
          /\ new.id = old.id
          /\ new.generatedImage = extractGeneratedImage(refineReply', hasDocument)
          /\ new.generatedImage \notin {"none", "throws"}
          /\ new.imageUrl = <<"data:image/jpeg;base64,", new.generatedImage>>
          /\ Len(new.refinements) = Len(old.refinements) + 1
          /\ SubSeq(new.refinements, 1, Len(old.refinements)) = old.refinements
          /\ new.refinements[Len(new.refinements)] =
               [prompt |-> REQUEST_PROMPT, timestamp |-> now]
          /\ Len(recentTryOns') = Len(recentTryOns)
          /\ \A k \in 1..Len(recentTryOns) :
               k # TargetIndex => recentTryOns'[k] = recentTryOns[k]]_vars

\* The second of two stored entries held two refinements and has been
\* refined with the image of the response.
C22_ThirdRefinementStored ==
  /\ hpc = "done"
  /\ message.tryOnId = 2
  /\ Len(responses) = 1 /\ responses[1].success
  /\ Len(recentTryOns) = 2
  /\ recentTryOns[2].id = 2
  /\ recentTryOns[2].generatedImage = "inline_data"
  /\ recentTryOns[2].refinements =
       <<Refinement("first", Epoch), Refinement("second", Epoch),
         Refinement(REQUEST_PROMPT, now)>>
  /\ recentTryOns[1].generatedImage = "original"

\* ------------------------------------------------------------------- C23
\* C23: after every addRecentTryOn the popup's list holds at most 20 entries,
\* the added entry is its first, the entries that were there follow in their
\* order, and the only entries missing are those that were last (the oldest)
\* when the list was full; a write the storage accepts stores that same list.
C23_AddKeepsNewestTwenty ==
  [][added' = added + 1 =>
       LET kept == Len(popupTryOns') - 1
       IN /\ Len(popupTryOns') <= HISTORY_CAP
          /\ popupTryOns'[1].id = HISTORY_CAP + added'
          /\ \A i \in 1..Len(popupTryOns) : popupTryOns[i].id # popupTryOns'[1].id
          /\ kept = IF Len(popupTryOns) < HISTORY_CAP THEN Len(popupTryOns)
                                                      ELSE HISTORY_CAP - 1
          /\ \A i \in 1..kept : popupTryOns'[i + 1] = popupTryOns[i]
          /\ recentTryOns' \in {recentTryOns, popupTryOns'}]_vars

\* The list was full, an entry was added and stored: it is first and the
\* entry that was last is gone.
C23_OldestEvicted ==
  /\ added = 1
  /\ Len(popupTryOns) = HISTORY_CAP
  /\ popupTryOns[1].id = HISTORY_CAP + 1
  /\ popupTryOns[HISTORY_CAP].id = 2
  /\ recentTryOns = popupTryOns

\* ------------------------------------------------------------------- C24
\* The photo id of the request names a photo the store returns.
PhotoResolved ==
  request.userPhotoId # 0 /\ db /\ request.userPhotoId \in userPhotos

\* C24: a run has a TryOnResult only if its photo id names a stored photo and
\* a clothing item was given; a run without one of the two ends with an
\* error after the validation alone: no Prepare, Safety or Generate stage is
\* entered and no request is sent.
C24_ResultNeedsPhotoAndItem ==
  /\ tryOnResult # NoResult => (PhotoResolved /\ request.hasClothingItem)
  /\ (pc # "idle" /\ pc # "start" /\ ~(PhotoResolved /\ request.hasClothingItem))
       => /\ pc = "done"
          /\ returned = "error"
          /\ stages = <<VALIDATE>>
          /\ \A s \in NetStages : calls[s] = 0
          /\ Len(store) = 0

\* A run that names a photo the store does not hold has ended.
C24_UnknownPhotoRefused ==
  /\ pc = "done"
  /\ request.userPhotoId = 2 /\ request.hasClothingItem /\ db
  /\ 2 \notin userPhotos
  /\ returned = "error"

\* ------------------------------------------------------------------- C25
\* The scale by which the size of procArgs has to shrink to fit its bounds,
\* as the fraction <<numerator, denominator>>.
FitScale ==
  LET a == procArgs
  IN IF a.width > a.maxWidth
        /\ (a.height <= a.maxHeight \/ a.maxWidth * a.height <= a.maxHeight * a.width)
       THEN <<a.maxWidth, a.width>>
     ELSE IF a.height > a.maxHeight THEN <<a.maxHeight, a.height>>
     ELSE <<1, 1>>

\* x is the fraction n/d rounded: it differs from it by at most one half.
RoundingOf(x, n, d) ==
  2 * (x * d - n) <= d /\ 2 * (n - x * d) <= d

\* C25: the dimensions resize computes are at most the bounds, and they are
\* the source dimensions under one common scale, each rounded to a whole
\* number.
C25_ResizeFitsAndKeepsRatio ==
  procResult # NoCall =>
    /\ procResult.size.width <= procArgs.maxWidth
    /\ procResult.size.height <= procArgs.maxHeight
    /\ procResult.size.width >= 0 /\ procResult.size.height >= 0
    /\ RoundingOf(procResult.size.width, FitScale[1] * procArgs.width, FitScale[2])
    /\ RoundingOf(procResult.size.height, FitScale[1] * procArgs.height, FitScale[2])

\* A 5 x 3 image has been resized for the bounds 4 x 2.
C25_BothBoundsBind ==
  /\ procArgs = [fn |-> "calculateDimensions", width |-> 5, height |-> 3,
                  maxWidth |-> 4, maxHeight |-> 2]
  /\ procResult = [fn |-> "calculateDimensions", size |-> [width |-> 3, height |-> 2]]

\* ------------------------------------------------------------------- C26
\* The position of byte i of the pixel data: channel, column and row.
ChannelOf(i) == (i - 1) % 4
ColumnOf(i) == ((i - 1) \div 4) % procArgs.width
RowOf(i) == ((i - 1) \div 4) \div procArgs.width

\* Byte i is a colour channel of an interior pixel.
Convolved(i) ==
  /\ ChannelOf(i) < 3
  /\ Interior(ColumnOf(i), RowOf(i), procArgs.width, procArgs.height)

\* The kernel-weighted sum of the original neighbours of byte i, in units of
\* the kernel's divisor.
SumAt(i) ==
  KernelSum(procArgs.data, procArgs.width, ColumnOf(i), RowOf(i), ChannelOf(i),
            procArgs.kernel.weights)

\* The bytes of the border and of the alpha channel are as they were.
FrameKept ==
  /\ Len(procResult.data) = Len(procArgs.data)
  /\ \A i \in 1..Len(procArgs.data) :
       ~Convolved(i) => procResult.data[i] = procArgs.data[i]

\* C26 as stated: the border and the alpha values are left as they were and
\* each written value is the kernel-weighted sum clamped to [0,255].
C26_WrittenIsClampedSum ==
  procResult # NoCall =>
    /\ FrameKept
    /\ \A i \in 1..Len(procArgs.data) :
         Convolved(i) =>
           procResult.data[i] * procArgs.kernel.divisor =
             Max(0, Min(BYTE_MAX * procArgs.kernel.divisor, SumAt(i)))

\* C26: the border and the alpha values are left as they were and each
\* written value is the kernel-weighted sum of the original neighbours
\* clamped to [0,255] and rounded to a whole number: it lies in 0..255 and
\* differs from the clamped sum by at most one half, and a sum that lies on a
\* half is stored as the even neighbour.
C26_WrittenIsRoundedClampedSum ==
  procResult # NoCall =>
    /\ FrameKept
    /\ \A i \in 1..Len(procArgs.data) :
         Convolved(i) =>
           LET d == procArgs.kernel.divisor
               clamped == Max(0, Min(BYTE_MAX * d, SumAt(i)))
               written == procResult.data[i]
           IN /\ written \in 0..BYTE_MAX
              /\ 2 * (written * d - clamped) <= d
              /\ 2 * (clamped - written * d) <= d
              /\ (2 * (written * d - clamped) = d \/ 2 * (clamped - written * d) = d)
                   => written % 2 = 0

\* A picture with two interior pixels has been sharpened; a sum went below
\* 0, another above 255 and a third lay on a half.
C26_SharpenedWithClamping ==
  /\ procResult # NoCall
  /\ procArgs.fn = "applyConvolution"
  /\ procArgs.width = 4 /\ procArgs.height = 3
  /\ procArgs.kernel.divisor = 2
  /\ \E i \in 1..Len(procArgs.data) : Convolved(i) /\ SumAt(i) < 0
  /\ \E i \in 1..Len(procArgs.data) :
       Convolved(i) /\ SumAt(i) > BYTE_MAX * procArgs.kernel.divisor
  /\ \E i \in 1..Len(procArgs.data) :
       /\ Convolved(i)
       /\ SumAt(i) % 2 = 1
       /\ SumAt(i) > 0 /\ SumAt(i) < BYTE_MAX * procArgs.kernel.divisor

\* ------------------------------------------------------------------- C27
\* The pixels of the data (counted from 0) that have the colour and are not
\* fully transparent.
VisiblePixels(color) ==
  {p \in 0..((Len(procArgs.data) \div 4) - 1) :
     /\ <<procArgs.data[4 * p + 1], procArgs.data[4 * p + 2],
          procArgs.data[4 * p + 3]>> = color
     /\ procArgs.data[4 * p + 4] # 0}

\* C27: the list extractColors resolves with has at most colorCount entries,
\* no entry has a larger count than the entry before it, no colour is listed
\* twice, and the count of an entry is at least one and at most the number of
\* pixels of its colour that are not fully transparent.
C27_TopColorsSortedAndVisible ==
  procResult # NoCall =>
    LET colors == procResult.colors
    IN /\ Len(colors) <= procArgs.colorCount
       /\ \A k \in 1..Len(colors) :
            /\ k > 1 => colors[k - 1].count >= colors[k].count
            /\ colors[k].count >= 1
            /\ colors[k].count <= Cardinality(VisiblePixels(colors[k].color))
            /\ \A j \in 1..Len(colors) : colors[j].color = colors[k].color => j = k

\* Of four sampled pixels the first is fully transparent green, the second
\* green and the last two red: red is listed with 2 before green with 1.
C27_TransparentSkipped ==
  /\ procArgs.fn = "analyzeColors"
  /\ procArgs.colorCount = 2
  /\ procArgs.data =
       SampledData(<< <<<<0, 255, 0>>, 0>>, <<<<0, 255, 0>>, 255>>,
                      <<<<255, 0, 0>>, 255>>, <<<<255, 0, 0>>, 255>> >>)
  /\ procResult = [fn |-> "analyzeColors",
                    colors |-> <<[color |-> <<255, 0, 0>>, count |-> 2],
                                 [color |-> <<0, 255, 0>>, count |-> 1]>>]

RequestsOf(stage) == {i \in 1..Len(wire) : wire[i].stage = stage}

\* C29: every Generate request that went out to the external service asks
\* for IMAGE among its response modalities, and each Generate call counted
\* is one such request to the image model.
C29_GenerateAsksForImage ==
  /\ \A i \in RequestsOf(GENERATE) :
       /\ IMAGE \in wire[i].body.response_modalities
       /\ wire[i].url = IMAGE_MODEL
  /\ Cardinality(RequestsOf(GENERATE)) = calls[GENERATE]

\* C29 witness: a Generate request is out and its reply is awaited, after
\* two safety requests that asked for no modality.
C29_GenerateRequestOut ==
  /\ pc = "generateWait"
  /\ RequestsOf(GENERATE) # {}
  /\ \A i \in RequestsOf(SAFETY_SUBJECT) \cup RequestsOf(SAFETY_GARMENT) :
       wire[i].body.response_modalities = {}
  /\ RequestsOf(SAFETY_GARMENT) # {}


\* The Generate requests of the run that came back without an image.
GenerateFailures ==
  IF GENERATE \in finished /\ ~imageResult.success THEN calls[GENERATE] ELSE 0

\* C30: when a run is over, totalRequests has grown by the number of
\* Generate calls the run attempted and errorCount by the number of those
\* that failed, both counted from the zero the run started with.
C30_CountersFollowGenerateCalls ==
  pc = "done" =>
    /\ usage.totalRequests = calls[GENERATE]
    /\ usage.errorCount = GenerateFailures


\* C31: no usage update, whichever run issues it and whether or not its
\* read of the stored counters succeeded, makes the stored totalRequests or
\* the stored errorCount smaller.
C31_CountersNeverDecrease ==
  [][/\ usage'.totalRequests >= usage.totalRequests
     /\ usage'.errorCount >= usage.errorCount]_vars


\* C32: a refineImage request that names a stored entry the popup recorded
\* for a completed try-on, sent with a prompt while an API key is configured,
\* is answered by sending the Refine request: the entry holds the generated
\* image where the handler reads it.
C32_RecordedEntryReachesRefine ==
  [][(/\ hpc = "refineStart"
      /\ hpc' # "refineStart"
      /\ message.refinementPrompt
      /\ message.tryOnId > HISTORY_CAP
      /\ TargetIndex # 0
      /\ profile.apiKey # "none")
     => fetches'["Refine"] = fetches["Refine"] + 1]_vars

\* C34: no write of the stored history takes a refinement away from an
\* entry the write keeps.
C34_RefinementsKept ==
  [][\A i \in 1..Len(recentTryOns), j \in 1..Len(recentTryOns') :
       recentTryOns'[j].id = recentTryOns[i].id =>
         Len(recentTryOns'[j].refinements) >= Len(recentTryOns[i].refinements)]_vars


\* The Detect call of a processImage request was skipped for lack of a key,
\* or it failed: the detection is one of the two made-up ones.
DetectSkippedOrFailed ==
  /\ message.action = "processImage"
  /\ detection.type \in {"clothing_detected_mock", "clothing_detected_fallback"}

\* C33: after a skipped or failed Detect call the request attempts no
\* try-on: no run is started and no Safety or Generate request is sent.
C33_NoTryOnWithoutDetect ==
  DetectSkippedOrFailed =>
    /\ pc = "idle"
    /\ calls[SAFETY_SUBJECT] = 0
    /\ calls[SAFETY_GARMENT] = 0
    /\ calls[GENERATE] = 0


\* What handleImageRefinement needs before it calls the service: an id and a
\* prompt in the request, a stored entry of that id, an API key, and a
\* generated image in the entry.
RefineAllowed ==
  /\ message.tryOnId # 0
  /\ message.refinementPrompt
  /\ TargetIndex # 0
  /\ profile.apiKey # "none"
  /\ recentTryOns[TargetIndex].generatedImage # "none"

\* The step answers the request with an error and leaves the history alone.
AnswersErrorOnly ==
  /\ Len(responses') = Len(responses) + 1
  /\ ~responses'[Len(responses')].success
  /\ responses'[Len(responses')].error
  /\ recentTryOns' = recentTryOns

\* C35: the refine handler sends a request only when the request has an id
\* and a prompt, the id is that of a stored entry, an API key is configured
\* and the entry holds a generated image; in every other case, and whenever
\* the Refine call fails, it answers with an error and the stored history
\* stays as it was.
C35_RefineGuardedAndFramed ==
  [][/\ (fetches' # fetches \/ wire' # wire) => (hpc = "refineStart" /\ RefineAllowed)
     /\ (hpc = "refineStart" /\ hpc' # "refineStart" /\ ~RefineAllowed) =>
          (AnswersErrorOnly /\ fetches' = fetches /\ wire' = wire)
     /\ (/\ hpc = "refineWait" /\ hpc' = "done"
         /\ \/ refineReply'.kind = "error"
            \/ ~refineGeneratedImage(refineReply', hasDocument).success) =>
          AnswersErrorOnly]_vars

\* C35 witness: the Refine request of an entry with two earlier refinements
\* went out and failed; the answer is an error and the entry is as it was.
C35_FailedRefineLeavesEntry ==
  /\ hpc = "done"
  /\ fetches["Refine"] = 1
  /\ refineReply.kind = "error"
  /\ Len(responses) = 1 /\ responses[1].error /\ ~responses[1].success
  /\ Len(recentTryOns) = 2
  /\ recentTryOns[TargetIndex].generatedImage = "original"
  /\ Len(recentTryOns[TargetIndex].refinements) = 2


\* The processImage messages sent for clicks on images.
ClickMessages ==
  {i \in 1..Len(contentScript.sent) : contentScript.sent[i].source = "element_selection"}

\* C36: once the image data of every click is there, one processImage
\* message has been sent for each click made in selection mode, however
\* often selection mode was entered and left before, and none for a click
\* made outside selection mode.
C36_OneRequestPerActiveClick ==
  (contentScript.extracting = 0 /\ contentScript.failed = 0) =>
    Cardinality(ClickMessages) = contentScript.activeClicks


\* C38: once processImageWithAI has dealt with a clothing-detection request
\* whose image data holds only a dataUrl, with a valid API key stored, the
\* Detect request has been sent.
C38_DataUrlReachesDetect ==
  (/\ message.action = "processImage"
   /\ message.type = "clothing_detection"
   /\ message.image = "dataUrl"
   /\ profile.apiKey = "valid"
   /\ hpc \notin {"received", "detect"})
    => fetches["Detect"] > 0


====
